---- MODULE Spec2Model ----
(***************************************************************************)
(* Persistence core of fhir-works-on-aws-persistence-ddb: the version      *)
(* store over the primary table (DynamoDbHelper, DynamoDbParamBuilder,     *)
(* DynamoDbUtil), the two-phase bundle transaction built on                *)
(* DynamoDbBundleServiceHelper, the hybrid (S3 offload) data service and   *)
(* the export-job registry.                                                *)
(*                                                                         *)
(* DynamoDbDataService and DynamoDbBundleService are not among the source  *)
(* files; their orchestration is modelled from sections 4.3, 4.4 and 4.7   *)
(* of the specification, on top of the helpers that are.                   *)
(***************************************************************************)
EXTENDS Integers, Sequences, FiniteSets, TLC

VARIABLES
    table,      \* primary table: <<id, vid>> -> item (NoItem when absent)
    now,        \* Date.now()
    cl,         \* per client: position and locals of the call in flight
    nextOp,     \* next operation number (names the payload an operation writes)
    journal,    \* per operation: the call, what it saw, the result it returned
    chain,      \* per id: the single-resource calls that have returned
    exposed,    \* operations whose payload a readResource has returned
    failures,   \* transient failures of the store so far
    updateCreateSupported,  \* DynamoDbDataService.updateCreateSupported
    blobs,      \* object storage: key -> the stored bulk data {link, data} (NoBlob: no object)
    jobs,       \* export request table: jobId -> job row
    ex,         \* per session: position and locals of the export call in flight
    nextJob,    \* next fresh jobId
    rd,         \* the last read: the request and what it returned
    enableMultiTenancy,     \* HybridDataService.enableMultiTenancy
    attributesToDeloadForResourceType,  \* the resource types registered for object storage
    streamEnabled,  \* the primary table has its change feed (DynamoDB stream) enabled
    feed,       \* per shard (partition key): the records not yet acknowledged
    es,         \* search engine: indices, aliases and documents
    ddbToEs,    \* the last invocation of handleDdbToEsEvent: its records and what it did
    codec       \* a resource on its way through prepItemForDdbInsert and cleanItem

vars == <<table, now, cl, nextOp, journal, chain, exposed, failures, updateCreateSupported,
          blobs, jobs, ex, nextJob, rd, enableMultiTenancy,
          attributesToDeloadForResourceType, streamEnabled, feed, es, ddbToEs,
          codec>>

\* the change feed and what consumes it
streamVars == <<streamEnabled, feed, es, ddbToEs>>

----------------------------------------------------------------------------
(* Bounds of the model *)

MaxVid == 3
MaxTime == 1
MaxOps == 3
MaxBundleLen == 2
MaxFailures == 1
TransactionSize == 1
Ids == {"a", "b"}
Clients == {"c1", "c2"}
SeqClients == {"c1"}
SharedIds == {"a"}
\* an id a client supplies that does not have the form of a uuid
MalformedIds == {"uuid:$deadbeef"}
AllIds == Ids \cup MalformedIds
\* the ids of Ids stand for ids of the form of a uuid
UuidLike(id) == id \in Ids
\* the names of the indices (the lowercased resource types) and the document ids
IndexNames == {"patient", "binary"}
GeneratedIds == {<<"generated", "1">>, <<"generated", "2">>}
DocIds == {<<>>} \cup {<<i>> : i \in AllIds} \cup GeneratedIds

Vids == 1..MaxVid
Ops == 1..MaxOps
MaxJobs == 3
MaxBatch == 2
MaxIdLen == 2
JobIds == 1..MaxJobs
Sessions == {"s1", "s2"}
Users == {"userId-1", "userId-2"}

----------------------------------------------------------------------------
(* documentStatus.ts values, as used by the helpers *)

AVAILABLE == "AVAILABLE"
LOCKED == "LOCKED"
PENDING == "PENDING"
PENDING_DELETE == "PENDING_DELETE"
DELETED == "DELETED"
NULL == "NULL"

LOCK_DURATION_IN_MS == 35000

ResourceType == "Patient"

\* a resource type registered with registerToStoreOnObjectStorage
RegisteredType == "Questionnaire"

ResourceTypes == {ResourceType, RegisteredType}

NoItem ==
    [resourceType |-> "", documentStatus |-> "NONE", lockEndTs |-> 0, writer |-> 0,
     attrs |-> 0, bulkDataLink |-> 0]

Min(a, b) == IF a <= b THEN a ELSE b

----------------------------------------------------------------------------
(* DynamoDbUtil.prepItemForDdbInsert: the stored item of one version. The  *)
(* payload is named by the operation that wrote it: writer stands for the  *)
(* attributes that always stay in the item, attrs for those a registered   *)
(* resource type offloads (0: not in the item); bulkDataLink is the key of *)
(* the offloaded attributes (0: none).                                     *)

\* what detachPayloadFromResource leaves of the offloaded attributes in the resource
DetachedAttrs(writer, bulkDataLink) == IF bulkDataLink = 0 THEN writer ELSE 0

prepItemForDdbInsert(writer, bulkDataLink, resourceType, documentStatus, ts) ==
    [resourceType |-> resourceType, documentStatus |-> documentStatus,
     lockEndTs |-> ts, writer |-> writer, attrs |-> DetachedAttrs(writer, bulkDataLink),
     bulkDataLink |-> bulkDataLink]

\* DynamoDbUtil.cleanItem: the item as unmarshalled, without the hidden fields
HiddenFields == {"documentStatus", "lockEndTs", "vid", "_references"}

Unmarshall(item, id, vid) ==
    [id |-> id, vid |-> vid, versionId |-> vid, resourceType |-> item.resourceType,
     documentStatus |-> item.documentStatus, lockEndTs |-> item.lockEndTs,
     writer |-> item.writer, attrs |-> item.attrs, bulkDataLink |-> item.bulkDataLink]

cleanItem(item) == [f \in DOMAIN item \ HiddenFields |-> item[f]]

----------------------------------------------------------------------------
(* DynamoDbParamBuilder *)

\* futureEndTs of buildUpdateDocumentStatusParam
FutureEndTs(newStatus, currentTs) ==
    IF newStatus = LOCKED THEN currentTs + LOCK_DURATION_IN_MS ELSE currentTs

StatusConditionOnStatusOnly(stored, oldStatus, resourceType, currentTs) ==
    /\ stored # NoItem
    /\ stored.resourceType = resourceType
    /\ (oldStatus # NULL) => stored.documentStatus = oldStatus

\* ConditionExpression of buildUpdateDocumentStatusParam, evaluated on the stored item
StatusCondition(stored, oldStatus, resourceType, currentTs) ==
    /\ stored # NoItem
    /\ stored.resourceType = resourceType
    /\ (oldStatus # NULL) =>
          \/ stored.documentStatus = oldStatus
          \/ /\ stored.lockEndTs < currentTs
             /\ stored.documentStatus \in {LOCKED, PENDING, PENDING_DELETE}

buildUpdateDocumentStatusParam(oldStatus, newStatus, id, vid, resourceType, currentTs) ==
    [type |-> "Update", id |-> id, vid |-> vid, oldStatus |-> oldStatus,
     newStatus |-> newStatus, resourceType |-> resourceType, currentTs |-> currentTs,
     futureEndTs |-> FutureEndTs(newStatus, currentTs), item |-> NoItem,
     conditional |-> TRUE]

buildDeleteParam(id, vid) ==
    [type |-> "Delete", id |-> id, vid |-> vid, oldStatus |-> NULL,
     newStatus |-> NULL, resourceType |-> "", currentTs |-> 0,
     futureEndTs |-> 0, item |-> NoItem, conditional |-> FALSE]

\* A Put of a prepared item; conditional: ConditionExpression attribute_not_exists(id)
PutParam(item, id, vid, conditional) ==
    [type |-> "Put", id |-> id, vid |-> vid, oldStatus |-> NULL,
     newStatus |-> NULL, resourceType |-> "", currentTs |-> 0,
     futureEndTs |-> 0, item |-> item, conditional |-> conditional]

buildPutAvailableItemParamOverwrite(writer, link, id, vid, allowOverwriteId, resourceType, ts) ==
    PutParam(prepItemForDdbInsert(writer, link, resourceType, AVAILABLE, ts), id, vid, FALSE)

buildPutAvailableItemParam(writer, link, id, vid, allowOverwriteId, resourceType, ts) ==
    PutParam(prepItemForDdbInsert(writer, link, resourceType, AVAILABLE, ts), id, vid,
             ~allowOverwriteId)

----------------------------------------------------------------------------
(* The primary table: conditional writes and transactions of DynamoDB *)

ConditionHolds(tbl, d) ==
    CASE d.type = "Put" -> (d.conditional => tbl[<<d.id, d.vid>>] = NoItem)
      [] d.type = "Update" ->
            StatusCondition(tbl[<<d.id, d.vid>>], d.oldStatus, d.resourceType, d.currentTs)
      [] OTHER -> TRUE

ApplyWrite(tbl, d) ==
    CASE d.type = "Put" -> [tbl EXCEPT ![<<d.id, d.vid>>] = d.item]
      [] d.type = "Update" ->
            [tbl EXCEPT ![<<d.id, d.vid>>] =
                [@ EXCEPT !.documentStatus = d.newStatus, !.lockEndTs = d.futureEndTs]]
      [] OTHER -> [tbl EXCEPT ![<<d.id, d.vid>>] = NoItem]

RECURSIVE ApplyAll(_, _)
ApplyAll(tbl, ds) ==
    IF ds = <<>> THEN tbl ELSE ApplyAll(ApplyWrite(tbl, Head(ds)), Tail(ds))

\* transactWriteItems: all conditions hold and every write is applied, or none is
TransactionAccepted(tbl, ds) == \A i \in 1..Len(ds) : ConditionHolds(tbl, ds[i])

----------------------------------------------------------------------------
(* DynamoDbHelper *)

\* vids of the chain of id, as the query sees them (ScanIndexForward: false)
ChainVids(tbl, id) == {v \in Vids : tbl[<<id, v>>] # NoItem}

RECURSIVE TopVids(_, _)
TopVids(S, n) ==
    IF n = 0 \/ S = {} THEN <<>>
    ELSE LET m == CHOOSE x \in S : \A y \in S : y <= x
         IN <<m>> \o TopVids(S \ {m}, n - 1)

\* getMostRecentResources: Limit is applied before the FilterExpression
getMostRecentResources(tbl, resourceType, id, maxNumberOfVersionsToGet) ==
    SelectSeq(TopVids(ChainVids(tbl, id), maxNumberOfVersionsToGet),
              LAMBDA v : tbl[<<id, v>>].resourceType = resourceType)

NotFound == [found |-> FALSE, vid |-> 0, item |-> NoItem]
Found(tbl, id, v) == [found |-> TRUE, vid |-> v, item |-> tbl[<<id, v>>]]

getMostRecentResource(tbl, resourceType, id) ==
    LET items == getMostRecentResources(tbl, resourceType, id, 1)
    IN IF Len(items) = 0 THEN NotFound ELSE Found(tbl, id, items[1])

getMostRecentUserReadableResourceSkipDeleted(tbl, resourceType, id) ==
    LET items == getMostRecentResources(tbl, resourceType, id, 2)
    IN IF Len(items) = 0 THEN NotFound
       ELSE IF tbl[<<id, items[1]>>].documentStatus \in {AVAILABLE, PENDING_DELETE, LOCKED}
            THEN Found(tbl, id, items[1])
       ELSE IF Len(items) > 1 THEN Found(tbl, id, items[2])
       ELSE NotFound

getMostRecentUserReadableResource(tbl, resourceType, id) ==
    LET items == getMostRecentResources(tbl, resourceType, id, 2)
    IN IF Len(items) = 0 THEN NotFound
       ELSE LET latestItemDocStatus == tbl[<<id, items[1]>>].documentStatus
            IN IF latestItemDocStatus = DELETED THEN NotFound
               ELSE IF latestItemDocStatus \in {AVAILABLE, PENDING_DELETE, LOCKED}
                    THEN Found(tbl, id, items[1])
               ELSE IF latestItemDocStatus = PENDING /\ Len(items) > 1
                    THEN Found(tbl, id, items[2])
               ELSE NotFound

----------------------------------------------------------------------------
(* DynamoDbBundleServiceHelper *)

\* vid of the version an update stages: (idToVersionId[id] || 0) + 1
UpdateVidSkip(idToVersionId, id) == idToVersionId[id] + 2

UpdateVid(idToVersionId, id) == idToVersionId[id] + 1

\* vid of the entry a request stages (create: 1, update: next, delete: looked up)
StagedVid(r, idToVersionId) ==
    CASE r.operation = "create" -> 1
      [] r.operation = "update" -> UpdateVid(idToVersionId, r.id)
      [] OTHER -> idToVersionId[r.id]

Entry(r, idToVersionId) ==
    [operation |-> r.operation, id |-> r.id, vid |-> StagedVid(r, idToVersionId)]

RECURSIVE EntriesOf(_, _, _)
EntriesOf(requests, idToVersionId, operation) ==
    IF requests = <<>> THEN <<>>
    ELSE (IF Head(requests).operation = operation
          THEN <<Entry(Head(requests), idToVersionId)>> ELSE <<>>)
         \o EntriesOf(Tail(requests), idToVersionId, operation)

\* generateStagingRequests: the staged entries, deletes, creates, then updates
StagingEntries(requests, idToVersionId) ==
    EntriesOf(requests, idToVersionId, "delete")
    \o EntriesOf(requests, idToVersionId, "create")
    \o EntriesOf(requests, idToVersionId, "update")

\* generateStagingRequests: the write of one staged entry
StagingRequest(e, writer, link, ts) ==
    IF e.operation = "delete"
    THEN buildUpdateDocumentStatusParam(LOCKED, PENDING_DELETE, e.id, e.vid, ResourceType, ts)
    ELSE PutParam(prepItemForDdbInsert(writer, link, ResourceType, PENDING, ts),
                  e.id, e.vid, FALSE)

RollbackDeletesNothing(e) == <<>>

RollbackDeletesLatest(e) ==
    IF e.operation \in {"create", "update"} /\ getMostRecentResource(table, ResourceType, e.id).found
    THEN <<buildDeleteParam(e.id, getMostRecentResource(table, ResourceType, e.id).vid)>>
    ELSE <<>>

\* generateRollbackRequests: inserted versions are deleted, nothing for a delete
RollbackDeletes(e) ==
    IF e.operation \in {"create", "update"} THEN <<buildDeleteParam(e.id, e.vid)>> ELSE <<>>

----------------------------------------------------------------------------
(* Bundle Service (specification 4.4): phase 2 and the rollback of deletes *)

CommitRequest(e, ts) ==
    IF e.operation = "delete"
    THEN buildUpdateDocumentStatusParam(PENDING_DELETE, DELETED, e.id, e.vid, ResourceType, ts)
    ELSE buildUpdateDocumentStatusParam(PENDING, AVAILABLE, e.id, e.vid, ResourceType, ts)

RollbackRequest(e, ts) ==
    IF e.operation = "delete"
    THEN <<buildUpdateDocumentStatusParam(PENDING_DELETE, AVAILABLE, e.id, e.vid,
                                          ResourceType, ts)>>
    ELSE RollbackDeletes(e)

\* the k-th sub-batch of a sequence
SubBatch(s, k) ==
    SubSeq(s, (k - 1) * TransactionSize + 1, Min(k * TransactionSize, Len(s)))

SubBatches(s) == (Len(s) + TransactionSize - 1) \div TransactionSize

RECURSIVE Flatten(_)
Flatten(ss) == IF ss = <<>> THEN <<>> ELSE Head(ss) \o Flatten(Tail(ss))

\* first entry at or after position from that phase 0 looks up
RECURSIVE NextLookup(_, _)
NextLookup(requests, from) ==
    IF from > Len(requests) THEN from
    ELSE IF requests[from].operation # "create" THEN from
    ELSE NextLookup(requests, from + 1)

----------------------------------------------------------------------------
(* Requests *)

Request(operation, id) == [operation |-> operation, id |-> id]

Requests == {Request(o, i) : o \in {"create", "update", "delete"}, i \in Ids}

\* bundles of at most MaxBundleLen entries on distinct ids
BundlesOn(ids) ==
    {b \in UNION {[1..n -> Requests] : n \in 1..MaxBundleLen} :
        /\ \A i \in DOMAIN b : b[i].id \in ids
        /\ \A i, j \in DOMAIN b : i # j => b[i].id # b[j].id}

Idle ==
    [pc |-> "idle", op |-> 0, requests |-> <<>>,
     idToVersionId |-> [i \in Ids |-> 0], idx |-> 0, staged |-> <<>>,
     before |-> [i \in Ids |-> NotFound], undone |-> TRUE, link |-> 0,
     result |-> "none", versions |-> {}, tasks |-> {}]

\* the record of one call: what was asked, what it saw and what it returned
NoCall ==
    [api |-> "none", ids |-> {}, result |-> "none", updated |-> {},
     seen |-> [i \in Ids |-> [writer |-> 0, documentStatus |-> "NONE"]],
     during |-> {}, rank |-> 0, staged |-> <<>>, rerun |-> "none"]

IdsOf(requests) == {requests[k].id : k \in 1..Len(requests)}

\* the versions the updates among the staged entries have written
UpdatedBy(staged) ==
    {<<staged[k].id, staged[k].vid>> : k \in {j \in 1..Len(staged) :
                                                staged[j].operation = "update"}}

NoChain == [created |-> FALSE, updates |-> 0, deleted |-> FALSE, pure |-> TRUE]

\* a row of the export request table, and the locals of initiateExport
NoJob == [jobOwnerId |-> "", jobStatus |-> "none"]

NoExport == [pc |-> "idle", requesterUserId |-> "", count |-> 0, jobId |-> 0]

\* the object storage holds no object under a key
NoBlob == [link |-> 0, data |-> 0]

\* no resource is on its way through the codec
NoCodec == [pc |-> "none"]

\* a read request and its outcome; resource is the cleaned item (<<>>: none)
NoRead == [api |-> "none", resourceType |-> "", id |-> "", vid |-> 0, result |-> "none",
           resource |-> <<>>]

----------------------------------------------------------------------------
(* Change feed of the primary table *)

\* a record of the feed: the event and the image of the item (OldImage for a
\* REMOVE, NewImage otherwise) with its keys
FeedRecord(eventName, id, vid, tenantId, item) ==
    [eventName |-> eventName, id |-> id, vid |-> vid, tenantId |-> tenantId,
     image |-> item]

\* an id as the string of its characters; an id of Ids is one character
Str(id) == <<id>>

\* item.tenantId is undefined
NoTenant == <<>>

\* the records of one write of the table for the versions v.. of the id, by vid
RECURSIVE Changes(_, _, _, _)
Changes(id, v, old, new) ==
    IF v > MaxVid THEN <<>>
    ELSE LET k == <<id, v>>
             r == IF old[k] = new[k] THEN <<>>
                  ELSE IF old[k] = NoItem THEN <<FeedRecord("INSERT", Str(id), v, NoTenant, new[k])>>
                  ELSE IF new[k] = NoItem THEN <<FeedRecord("REMOVE", Str(id), v, NoTenant, old[k])>>
                  ELSE <<FeedRecord("MODIFY", Str(id), v, NoTenant, new[k])>>
         IN r \o Changes(id, v + 1, old, new)

\* every mutation of the table is appended to the feed of its partition key
Streamed ==
    /\ feed' = IF streamEnabled
               THEN [i \in AllIds |-> feed[i] \o Changes(i, 1, table, table')]
               ELSE feed
    /\ UNCHANGED <<streamEnabled, es, ddbToEs, codec>>

\* the search engine without index, alias and document; no invocation yet
NoIndex == [exists |-> FALSE, properties |-> {}]

NoDoc == [vid |-> 0, image |-> NoItem]

NoSearch ==
    [index |-> [t \in IndexNames |-> NoIndex],
     alias |-> [t \in IndexNames |-> FALSE],
     docs |-> [t \in IndexNames |-> [i \in DocIds |-> NoDoc]]]

NoEvent == [shard |-> "", records |-> <<>>, looped |-> 0, issued |-> <<>>, applied |-> 0,
            result |-> "none", replay |-> FALSE,
            found |-> [index |-> NoSearch.index, alias |-> NoSearch.alias]]

----------------------------------------------------------------------------
InitTable ==
    /\ table = [k \in AllIds \X Vids |-> NoItem]
    /\ now = 0
    /\ cl = [c \in Clients |-> Idle]
    /\ nextOp = 1
    /\ journal = [o \in Ops |-> NoCall]
    /\ chain = [i \in Ids |-> NoChain]
    /\ exposed = {}
    /\ failures = 0
    /\ updateCreateSupported \in BOOLEAN
    /\ blobs = [k \in Ops |-> NoBlob]
    /\ jobs = [j \in JobIds |-> NoJob]
    /\ ex = [u \in Sessions |-> NoExport]
    /\ nextJob = 1
    /\ rd = NoRead

InitStore == InitTable /\ codec = NoCodec

\* the change feed of the table is not enabled
NoStream ==
    /\ streamEnabled = FALSE
    /\ feed = [i \in AllIds |-> <<>>]
    /\ es = NoSearch
    /\ ddbToEs = NoEvent

\* the data service and the bundle service, called directly
Init ==
    /\ InitStore
    /\ NoStream
    /\ enableMultiTenancy = FALSE
    /\ attributesToDeloadForResourceType = {RegisteredType}

CanStart(c) == cl[c].pc = "idle" /\ nextOp <= MaxOps

Running == {o \in Ops : journal[o].result = "run"}

Committed == {o \in Ops : journal[o].result = "ok"}

\* the history of the single-resource calls on each id, after a call has returned
ChainAfter(api, requests, result) ==
    LET id == requests[1].id
    IN CASE api = "create" /\ result = "ok" -> [chain EXCEPT ![id].created = TRUE]
         [] api = "update" /\ result = "ok" /\ requests[1].operation = "create" ->
               [chain EXCEPT ![id].created = TRUE]
         [] api = "update" /\ result = "ok" /\ requests[1].operation = "update" ->
               [chain EXCEPT ![id].updates = @ + 1]
         [] api = "update" /\ result \in {"error", "errorNotUndone"} ->
               [chain EXCEPT ![id].pure = FALSE]
         [] api = "delete" /\ result = "ok" -> [chain EXCEPT ![id].deleted = TRUE]
         [] OTHER -> chain

\* the call of client c returns
Finish(c, result) ==
    LET op == cl[c].op
    IN /\ cl' = [cl EXCEPT ![c] = Idle]
       /\ journal' = [journal EXCEPT ![op].result = result,
                                     ![op].staged = cl[c].staged,
                                     ![op].updated = IF result = "ok"
                                                     THEN UpdatedBy(cl[c].staged) ELSE {},
                                     ![op].rank = IF result = "ok"
                                                  THEN Cardinality(Committed) + 1 ELSE 0]
       /\ chain' = ChainAfter(journal[op].api, cl[c].requests, result)

\* the primary-store part of a call returns: a hybrid write that failed still has
\* its uploaded object to delete (the catch blocks of HybridDataService)
Return(c, result) ==
    IF journal[cl[c].op].api \in {"hybridCreate", "hybridUpdate"} /\ result # "ok"
    THEN /\ cl' = [cl EXCEPT ![c].pc = "hybridCleanup", ![c].result = result]
         /\ UNCHANGED <<journal, chain>>
    ELSE Finish(c, result)

\* a call that takes one step
ReturnAtOnce(api, requests, result) ==
    /\ nextOp' = nextOp + 1
    /\ journal' = [journal EXCEPT ![nextOp] =
                      [NoCall EXCEPT !.api = api, !.ids = IdsOf(requests), !.result = result,
                                     !.during = Running,
                                     !.rank = IF result = "ok"
                                              THEN Cardinality(Committed) + 1 ELSE 0]]
    /\ chain' = ChainAfter(api, requests, result)

\* the store fails transiently (throttling, a lost connection) at most MaxFailures times
Transient(fails) ==
    /\ fails => failures < MaxFailures
    /\ failures' = IF fails THEN failures + 1 ELSE failures

\* what readResource shows of the ids of the requests, before the call
Before(requests) ==
    [i \in Ids |->
        IF i \in IdsOf(requests)
        THEN getMostRecentUserReadableResource(table, ResourceType, i) ELSE NotFound]

\* a call starts with the locals given
BeginLocals(c, api, requests, locals) ==
    /\ cl' = [cl EXCEPT ![c] = [locals EXCEPT !.op = nextOp,
                                              !.requests = requests,
                                              !.before = Before(requests)]]
    /\ nextOp' = nextOp + 1
    /\ journal' = [o \in Ops |->
                    IF o = nextOp
                    THEN [NoCall EXCEPT !.api = api, !.ids = IdsOf(requests),
                                        !.result = "run", !.during = Running]
                    ELSE IF o \in Running
                    THEN [journal[o] EXCEPT !.during = @ \cup {nextOp}]
                    ELSE journal[o]]
    /\ chain' = IF api = "bundle"
                THEN [i \in Ids |->
                        IF i \in IdsOf(requests)
                        THEN [chain[i] EXCEPT !.pure = FALSE] ELSE chain[i]]
                ELSE chain

BeginWith(c, api, pc, requests, idToVersionId, idx, link) ==
    BeginLocals(c, api, requests,
                [Idle EXCEPT !.pc = pc, !.idx = idx, !.idToVersionId = idToVersionId,
                             !.link = link])

Begin(c, api, pc, requests, idToVersionId, idx) ==
    BeginWith(c, api, pc, requests, idToVersionId, idx, 0)

----------------------------------------------------------------------------
(* Data Service (specification 4.3) *)

\* createResourceWithId: one conditional put of vid 1, AVAILABLE
PutAvailable(writer, link, id) ==
    LET d == buildPutAvailableItemParam(writer, link, id, 1, FALSE, ResourceType, now)
    IN IF ConditionHolds(table, d) THEN ApplyWrite(table, d) ELSE table

PutAvailableResult(writer, link, id) ==
    LET d == buildPutAvailableItemParam(writer, link, id, 1, FALSE, ResourceType, now)
    IN IF ConditionHolds(table, d) THEN "ok" ELSE "InvalidResource"

CreateResource(c, id) ==
    /\ CanStart(c)
    /\ table' = PutAvailable(nextOp, 0, id)
    /\ ReturnAtOnce("create", <<Request("create", id)>>, PutAvailableResult(nextOp, 0, id))
    /\ UNCHANGED <<now, cl, exposed, failures, updateCreateSupported,
                 blobs, jobs, ex, nextJob, rd, enableMultiTenancy,
      attributesToDeloadForResourceType>>
    /\ Streamed

\* readResource, by any reader
ReadResource(id) ==
    /\ LET r == getMostRecentUserReadableResource(table, ResourceType, id)
       IN /\ r.found
          /\ exposed' = exposed \cup {r.item.writer}
    /\ UNCHANGED <<table, now, cl, nextOp, journal, chain, failures, updateCreateSupported,
                 blobs, jobs, ex, nextJob, rd, enableMultiTenancy,
      attributesToDeloadForResourceType, streamVars, codec>>

\* deleteResource: read the current version ...
DeleteRead(c, id) ==
    /\ CanStart(c)
    /\ LET r == getMostRecentUserReadableResource(table, ResourceType, id)
       IN IF r.found
          THEN Begin(c, "delete", "deleteWrite", <<Request("delete", id)>>,
                     [Idle.idToVersionId EXCEPT ![id] = r.vid], 1)
          ELSE /\ ReturnAtOnce("delete", <<Request("delete", id)>>, "ResourceNotFound")
               /\ UNCHANGED cl
    /\ UNCHANGED <<table, now, exposed, failures, updateCreateSupported,
                 blobs, jobs, ex, nextJob, rd, enableMultiTenancy,
      attributesToDeloadForResourceType, streamVars, codec>>

\* ... then the guarded transition AVAILABLE -> DELETED of that version
DeleteWrite(c) ==
    /\ cl[c].pc = "deleteWrite"
    /\ LET id == cl[c].requests[1].id
           d == buildUpdateDocumentStatusParam(AVAILABLE, DELETED, id,
                                               cl[c].idToVersionId[id], ResourceType, now)
       IN IF ConditionHolds(table, d)
          THEN /\ table' = ApplyWrite(table, d)
               /\ Return(c, "ok")
          ELSE /\ table' = table
               /\ Return(c, "ResourceNotFound")
    /\ UNCHANGED <<now, nextOp, exposed, failures, updateCreateSupported,
                 blobs, jobs, ex, nextJob, rd, enableMultiTenancy,
      attributesToDeloadForResourceType>>
    /\ Streamed

\* updateResource: read the current version, then a one-entry update bundle,
\* or the create of the update-as-create mode under an id of the form of a uuid
UpdateRead(c, id) ==
    /\ CanStart(c)
    /\ LET r == getMostRecentUserReadableResource(table, ResourceType, id)
       IN IF r.found
          THEN Begin(c, "update", "lookup", <<Request("update", id)>>,
                     Idle.idToVersionId, 1)
          ELSE IF ~updateCreateSupported
          THEN /\ ReturnAtOnce("update", <<Request("update", id)>>, "ResourceNotFound")
               /\ UNCHANGED cl
          ELSE IF ~UuidLike(id)
          THEN /\ ReturnAtOnce("update", <<Request("update", id)>>, "InvalidResource")
               /\ UNCHANGED cl
          ELSE Begin(c, "update", "updateCreate", <<Request("create", id)>>,
                     Idle.idToVersionId, 1)
    /\ UNCHANGED <<table, now, exposed, failures, updateCreateSupported,
                 blobs, jobs, ex, nextJob, rd, enableMultiTenancy,
      attributesToDeloadForResourceType, streamVars, codec>>

UpdateCreate(c) ==
    /\ cl[c].pc = "updateCreate"
    /\ LET id == cl[c].requests[1].id
       IN /\ table' = PutAvailable(cl[c].op, 0, id)
          /\ Return(c, PutAvailableResult(cl[c].op, 0, id))
    /\ UNCHANGED <<now, nextOp, exposed, failures, updateCreateSupported,
                 blobs, jobs, ex, nextJob, rd, enableMultiTenancy,
      attributesToDeloadForResourceType>>
    /\ Streamed

\* readResource: the most recent user-readable version, cleaned
readResource(tbl, resourceType, id) ==
    LET r == getMostRecentUserReadableResource(tbl, resourceType, id)
    IN IF r.found
       THEN [result |-> "ok", resource |-> cleanItem(Unmarshall(r.item, id, r.vid))]
       ELSE [result |-> "ResourceNotFound", resource |-> <<>>]

\* vReadResource: the point get of buildGetItemParam; an absent item and an item of
\* another resource type are ResourceVersionNotFound, any other item is cleaned and returned
vReadResource(tbl, resourceType, id, vid) ==
    LET item == tbl[<<id, vid>>]
    IN IF item = NoItem \/ item.resourceType # resourceType
       THEN [result |-> "VersionNotFound", resource |-> <<>>]
       ELSE [result |-> "ok", resource |-> cleanItem(Unmarshall(item, id, vid))]

ReadOutcome(api, resourceType, id, vid, r) ==
    [api |-> api, resourceType |-> resourceType, id |-> id, vid |-> vid,
     result |-> r.result, resource |-> r.resource]

readVars ==
    <<table, now, cl, nextOp, journal, chain, exposed, failures, updateCreateSupported,
      blobs, jobs, ex, nextJob, enableMultiTenancy, attributesToDeloadForResourceType, streamVars, codec>>

\* readResource of the data service, the outcome kept in rd
DataReadResource(resourceType, id) ==
    /\ rd' = ReadOutcome("readResource", resourceType, id, 0,
                         readResource(table, resourceType, id))
    /\ UNCHANGED readVars

\* vReadResource of the data service
DataVReadResource(resourceType, id, vid) ==
    /\ rd' = ReadOutcome("vReadResource", resourceType, id, vid,
                         vReadResource(table, resourceType, id, vid))
    /\ UNCHANGED readVars

----------------------------------------------------------------------------
(* Bundle Service (specification 4.4) *)

StartBundle(c, requests) ==
    /\ CanStart(c)
    /\ Begin(c, "bundle",
             IF NextLookup(requests, 1) > Len(requests) THEN "stage" ELSE "lookup",
             requests, Idle.idToVersionId,
             IF NextLookup(requests, 1) > Len(requests) THEN 1 ELSE NextLookup(requests, 1))
    /\ UNCHANGED <<table, now, exposed, failures, updateCreateSupported,
                 blobs, jobs, ex, nextJob, rd, enableMultiTenancy,
      attributesToDeloadForResourceType, streamVars, codec>>

\* phase 0: the current vid of one update or delete target
Lookup(c) ==
    /\ cl[c].pc = "lookup"
    /\ LET r == cl[c].requests[cl[c].idx]
           m == getMostRecentResource(table, ResourceType, r.id)
           n == NextLookup(cl[c].requests, cl[c].idx + 1)
       IN IF ~m.found
          THEN Return(c, "ResourceNotFound")
          ELSE /\ cl' = [cl EXCEPT ![c].idToVersionId[r.id] = m.vid,
                                   ![c].idx = IF n > Len(cl[c].requests) THEN 1 ELSE n,
                                   ![c].pc = IF n > Len(cl[c].requests)
                                             THEN "stage" ELSE "lookup"]
               /\ journal' = [journal EXCEPT ![cl[c].op].seen[r.id] =
                                 [writer |-> m.item.writer,
                                  documentStatus |-> m.item.documentStatus]]
               /\ UNCHANGED chain
    /\ UNCHANGED <<table, now, nextOp, exposed, failures, updateCreateSupported,
                 blobs, jobs, ex, nextJob, rd, enableMultiTenancy,
      attributesToDeloadForResourceType, streamVars, codec>>

\* phase 1: one sub-batch of staging writes, as one transaction
Stage(c, fails) ==
    /\ cl[c].pc = "stage"
    /\ Transient(fails)
    /\ LET entries == StagingEntries(cl[c].requests, cl[c].idToVersionId)
           batch == SubBatch(entries, cl[c].idx)
           ds == [i \in 1..Len(batch) |-> StagingRequest(batch[i], cl[c].op, cl[c].link, now)]
       IN /\ \A i \in 1..Len(entries) : entries[i].vid <= MaxVid
          /\ IF ~fails /\ TransactionAccepted(table, ds)
             THEN /\ table' = ApplyAll(table, ds)
                  /\ cl' = [cl EXCEPT ![c].staged = @ \o batch,
                                      ![c].idx = IF cl[c].idx = SubBatches(entries)
                                                 THEN 1 ELSE @ + 1,
                                      ![c].pc = IF cl[c].idx = SubBatches(entries)
                                                THEN "commit" ELSE "stage"]
                  /\ UNCHANGED <<journal, chain>>
             ELSE /\ table' = table
                  /\ IF cl[c].staged = <<>>
                     THEN Return(c, "error")
                     ELSE /\ cl' = [cl EXCEPT ![c].pc = "rollback", ![c].idx = 1]
                          /\ UNCHANGED <<journal, chain>>
    /\ UNCHANGED <<now, nextOp, exposed, updateCreateSupported,
                 blobs, jobs, ex, nextJob, rd, enableMultiTenancy,
      attributesToDeloadForResourceType>>
    /\ Streamed

\* phase 2: one sub-batch of guarded commits, as one transaction
Commit(c, fails) ==
    /\ cl[c].pc = "commit"
    /\ Transient(fails)
    /\ LET batch == SubBatch(cl[c].staged, cl[c].idx)
           ds == [i \in 1..Len(batch) |-> CommitRequest(batch[i], now)]
       IN IF ~fails /\ TransactionAccepted(table, ds)
          THEN /\ table' = ApplyAll(table, ds)
               /\ IF cl[c].idx = SubBatches(cl[c].staged)
                  THEN Return(c, "ok")
                  ELSE /\ cl' = [cl EXCEPT ![c].idx = @ + 1]
                       /\ UNCHANGED <<journal, chain>>
          ELSE /\ table' = table
               /\ cl' = [cl EXCEPT ![c].pc = "rollback", ![c].idx = 1]
               /\ UNCHANGED <<journal, chain>>
    /\ UNCHANGED <<now, nextOp, exposed, updateCreateSupported,
                 blobs, jobs, ex, nextJob, rd, enableMultiTenancy,
      attributesToDeloadForResourceType>>
    /\ Streamed

\* rollback: one sub-batch; a failed sub-batch is logged and skipped
Rollback(c, fails) ==
    /\ cl[c].pc = "rollback"
    /\ Transient(fails)
    /\ LET batch == SubBatch(cl[c].staged, cl[c].idx)
           ds == Flatten([i \in 1..Len(batch) |-> RollbackRequest(batch[i], now)])
           applied == ~fails /\ TransactionAccepted(table, ds)
       IN /\ table' = IF applied THEN ApplyAll(table, ds) ELSE table
          /\ IF cl[c].idx = SubBatches(cl[c].staged)
             THEN Return(c, IF applied /\ cl[c].undone THEN "error" ELSE "errorNotUndone")
             ELSE /\ cl' = [cl EXCEPT ![c].idx = @ + 1, ![c].undone = @ /\ applied]
                  /\ UNCHANGED <<journal, chain>>
    /\ UNCHANGED <<now, nextOp, exposed, updateCreateSupported,
                 blobs, jobs, ex, nextJob, rd, enableMultiTenancy,
      attributesToDeloadForResourceType>>
    /\ Streamed

----------------------------------------------------------------------------
(* HybridDataService, for a resource type registered for object storage *)

\* detachPayloadFromResource: the bulk data {link, data} of the resource of operation
\* writer, data being its offloaded attributes
detachPayloadFromResource(writer, bulkDataLink) == [link |-> bulkDataLink, data |-> writer]

attachPayloadToResourceStripped(resource, bl) ==
    IF resource.bulkDataLink # 0
    THEN IF bl[resource.bulkDataLink] # NoBlob
            /\ bl[resource.bulkDataLink].link = resource.bulkDataLink
         THEN [found |-> TRUE, resource |-> [resource EXCEPT !.bulkDataLink = 0]]
         ELSE [found |-> FALSE, resource |-> <<>>]
    ELSE [found |-> TRUE, resource |-> resource]

\* attachPayloadToResource: the offloaded attributes are put back and bulkDataLink is
\* removed; an object that is missing or whose link is not the key: ResourceNotFound
attachPayloadToResource(resource, bl) ==
    IF resource.bulkDataLink # 0
    THEN IF bl[resource.bulkDataLink] # NoBlob
            /\ bl[resource.bulkDataLink].link = resource.bulkDataLink
         THEN [found |-> TRUE,
               resource |-> [resource EXCEPT !.attrs = bl[resource.bulkDataLink].data,
                                             !.bulkDataLink = 0]]
         ELSE [found |-> FALSE, resource |-> <<>>]
    ELSE [found |-> TRUE, resource |-> resource]

\* assertValidTenancyMode: tenant tells whether the request has a tenantId
assertValidTenancyMode(tenant) == enableMultiTenancy = tenant

\* composeResource: a payload that cannot be attached leaves the resource as it is
AttachedOrStripped(r) ==
    IF r.result # "ok" THEN r
    ELSE LET a == attachPayloadToResource(r.resource, blobs)
         IN IF a.found THEN [result |-> "ok", resource |-> a.resource] ELSE r

\* the data service's response with the payload attached
Attached(r) ==
    IF r.result # "ok" THEN r
    ELSE LET a == attachPayloadToResource(r.resource, blobs)
         IN IF a.found THEN [result |-> "ok", resource |-> a.resource]
            ELSE [result |-> "ResourceNotFound", resource |-> <<>>]

TenancyMismatch == [result |-> "TenancyMismatch", resource |-> <<>>]

\* readResource: the tenancy assertion, the data service's read, then the payload
HybridReadResource(resourceType, id, tenant) ==
    /\ rd' = ReadOutcome("hybridReadResource", resourceType, id, 0,
                         IF assertValidTenancyMode(tenant)
                         THEN Attached(readResource(table, resourceType, id))
                         ELSE TenancyMismatch)
    /\ UNCHANGED readVars

HybridVReadResource(resourceType, id, vid, tenant) ==
    /\ rd' = ReadOutcome("hybridVReadResource", resourceType, id, vid,
                         IF assertValidTenancyMode(tenant)
                         THEN Attached(vReadResource(table, resourceType, id, vid))
                         ELSE TenancyMismatch)
    /\ UNCHANGED readVars

\* shallStoreOnObjectStorage
shallStoreOnObjectStorage(resourceType) ==
    resourceType \in attributesToDeloadForResourceType

\* a call that the tenancy assertion ends
TenancyError(api, operation, id) ==
    /\ ReturnAtOnce(api, <<Request(operation, id)>>, "TenancyMismatch")
    /\ UNCHANGED <<table, now, cl, exposed, failures, updateCreateSupported,
                   blobs, jobs, ex, nextJob, rd, enableMultiTenancy,
                   attributesToDeloadForResourceType, streamVars, codec>>

\* updateResource taking the object key from the stored version when it has one
getPathNameOfStored(r, op) ==
    IF r.found /\ r.item.bulkDataLink # 0 THEN r.item.bulkDataLink ELSE op

\* getPathName(resourceId, uuidv4(), resourceType, tenantId) of
\* detachPayloadFromResource: a key that no call had before, named after the
\* operation; r is what readResource found
getPathName(r, op) == op

\* createResource: the tenancy assertion, then createResourceWithId, which hands a
\* resource type that is not registered to the data service
HybridCreate(c, id, tenant) ==
    /\ CanStart(c)
    /\ IF ~assertValidTenancyMode(tenant)
       THEN TenancyError("hybridCreate", "create", id)
       ELSE IF ~shallStoreOnObjectStorage(ResourceType)
       THEN CreateResource(c, id)
       ELSE /\ BeginWith(c, "hybridCreate", "hybridUpload", <<Request("create", id)>>,
                         Idle.idToVersionId, 1, getPathName(NotFound, nextOp))
            /\ UNCHANGED <<table, now, exposed, failures, updateCreateSupported,
                           blobs, jobs, ex, nextJob, rd, enableMultiTenancy,
                           attributesToDeloadForResourceType, streamVars, codec>>

\* updateResource: a resource type that is not registered goes to the data service's
\* updateResource; otherwise the tenancy assertion, readResource of the data service,
\* then the upload, or the createResourceWithId of the update-as-create mode
HybridUpdateRead(c, id, tenant) ==
    /\ CanStart(c)
    /\ IF ~shallStoreOnObjectStorage(ResourceType)
       THEN UpdateRead(c, id)
       ELSE IF ~assertValidTenancyMode(tenant)
       THEN TenancyError("hybridUpdate", "update", id)
       ELSE /\ LET r == getMostRecentUserReadableResource(table, ResourceType, id)
               IN IF r.found
                  THEN BeginWith(c, "hybridUpdate", "hybridUpload",
                                 <<Request("update", id)>>, Idle.idToVersionId, 1,
                                 getPathName(r, nextOp))
                  ELSE IF updateCreateSupported
                  THEN BeginWith(c, "hybridUpdate", "hybridUpload",
                                 <<Request("create", id)>>, Idle.idToVersionId, 1,
                                 getPathName(r, nextOp))
                  ELSE /\ ReturnAtOnce("hybridUpdate", <<Request("update", id)>>,
                                       "ResourceNotFound")
                       /\ UNCHANGED cl
            /\ UNCHANGED <<table, now, exposed, failures, updateCreateSupported,
                           blobs, jobs, ex, nextJob, rd, enableMultiTenancy,
                           attributesToDeloadForResourceType, streamVars, codec>>

\* uploadObject started and not awaited: the primary store is written whether or not
\* the upload succeeds
HybridUploadNotAwaited(c, fails) ==
    /\ cl[c].pc = "hybridUpload"
    /\ Transient(fails)
    /\ blobs' = IF fails THEN blobs
                ELSE [blobs EXCEPT ![cl[c].link] =
                                     detachPayloadFromResource(cl[c].op, cl[c].link)]
    /\ cl' = [cl EXCEPT ![c].pc = IF cl[c].requests[1].operation = "create"
                                  THEN "hybridPut" ELSE "lookup"]
    /\ UNCHANGED <<journal, chain>>
    /\ UNCHANGED <<table, now, nextOp, exposed, updateCreateSupported, jobs, ex, nextJob,
                   rd, enableMultiTenancy, attributesToDeloadForResourceType, streamVars, codec>>

\* storeBulkData: uploadObject of the detached payload {link, data} under the key
\* bulkDataLink, awaited before the primary store is written; a failed upload ends
\* the call with the upload's error
HybridUpload(c, fails) ==
    /\ cl[c].pc = "hybridUpload"
    /\ Transient(fails)
    /\ IF fails
       THEN /\ Finish(c, "uploadError")
            /\ UNCHANGED blobs
       ELSE /\ blobs' = [blobs EXCEPT ![cl[c].link] =
                                       detachPayloadFromResource(cl[c].op, cl[c].link)]
            /\ cl' = [cl EXCEPT ![c].pc = IF cl[c].requests[1].operation = "create"
                                          THEN "hybridPut" ELSE "lookup"]
            /\ UNCHANGED <<journal, chain>>
    /\ UNCHANGED <<table, now, nextOp, exposed, updateCreateSupported, jobs, ex, nextJob,
                   rd, enableMultiTenancy, attributesToDeloadForResourceType, streamVars, codec>>

\* createResourceWithIdNoClone of the data service
HybridPut(c) ==
    /\ cl[c].pc = "hybridPut"
    /\ LET id == cl[c].requests[1].id
       IN /\ table' = PutAvailable(cl[c].op, cl[c].link, id)
          /\ Return(c, PutAvailableResult(cl[c].op, cl[c].link, id))
    /\ UNCHANGED <<now, nextOp, exposed, failures, updateCreateSupported,
                   blobs, jobs, ex, nextJob, rd, enableMultiTenancy,
                   attributesToDeloadForResourceType>>
    /\ Streamed

\* a catch block that rethrows and leaves the uploaded object
HybridCleanupRethrowOnly(c) ==
    /\ cl[c].pc = "hybridCleanup"
    /\ blobs' = blobs
    /\ Finish(c, cl[c].result)
    /\ UNCHANGED <<table, now, nextOp, exposed, failures, updateCreateSupported,
                   jobs, ex, nextJob, rd, enableMultiTenancy,
                   attributesToDeloadForResourceType, streamVars, codec>>

\* the catch blocks: deleteObject of the uploaded object, then the error is rethrown
HybridCleanup(c) ==
    /\ cl[c].pc = "hybridCleanup"
    /\ blobs' = [blobs EXCEPT ![cl[c].link] = NoBlob]
    /\ Finish(c, cl[c].result)
    /\ UNCHANGED <<table, now, nextOp, exposed, failures, updateCreateSupported,
                   jobs, ex, nextJob, rd, enableMultiTenancy,
                   attributesToDeloadForResourceType, streamVars, codec>>

\* readResource: the current version only
readCurrentResourceVersion(tbl, resourceType, id) ==
    LET r == getMostRecentUserReadableResource(tbl, resourceType, id)
    IN IF r.found THEN {r.vid} ELSE {}

\* readAllResourceVersions: every version of the id
readAllResourceVersions(tbl, resourceType, id) ==
    {v \in Vids : tbl[<<id, v>>] # NoItem /\ tbl[<<id, v>>].resourceType = resourceType}

\* the delete requests of deleteResource: for every version deleteVersionedResource,
\* and deleteObject where the version has a bulkDataLink
DeleteRequests(tbl, id, versions) ==
    {[kind |-> "item", vid |-> v, link |-> tbl[<<id, v>>].bulkDataLink] : v \in versions}
    \cup {[kind |-> "object", vid |-> v, link |-> tbl[<<id, v>>].bulkDataLink] :
             v \in {w \in versions : tbl[<<id, w>>].bulkDataLink # 0}}

\* deleteResource: the tenancy assertion, then all versions are read and their delete
\* requests are issued together
HybridDeleteRead(c, id, tenant) ==
    /\ CanStart(c)
    /\ IF ~assertValidTenancyMode(tenant)
       THEN TenancyError("hybridDelete", "delete", id)
       ELSE /\ LET versions == readAllResourceVersions(table, ResourceType, id)
               IN IF versions # {}
                  THEN BeginLocals(c, "hybridDelete", <<Request("delete", id)>>,
                                   [Idle EXCEPT !.pc = "hybridDelete", !.idx = 1,
                                                !.result = "ok",
                                                !.versions = versions,
                                                !.tasks = DeleteRequests(table, id, versions)])
                  ELSE /\ ReturnAtOnce("hybridDelete", <<Request("delete", id)>>, "ok")
                       /\ UNCHANGED cl
            /\ UNCHANGED <<table, now, exposed, failures, updateCreateSupported,
                           blobs, jobs, ex, nextJob, rd, enableMultiTenancy,
                           attributesToDeloadForResourceType, streamVars, codec>>

\* Promise.all: a delete request settles; after the last one the call returns
\* success, or throws the error of the first request that failed
Settle(c, t, result) ==
    IF cl[c].tasks = {t}
    THEN Finish(c, IF cl[c].result = "ok" THEN result ELSE cl[c].result)
    ELSE /\ cl' = [cl EXCEPT ![c].tasks = @ \ {t},
                             ![c].result = IF @ = "ok" THEN result ELSE @]
         /\ UNCHANGED <<journal, chain>>

\* deleteObject(bulkDataLink) of one version
HybridDeleteBlob(c, t) ==
    /\ cl[c].pc = "hybridDelete"
    /\ t \in cl[c].tasks
    /\ t.kind = "object"
    /\ blobs' = [blobs EXCEPT ![t.link] = NoBlob]
    /\ Settle(c, t, "ok")
    /\ UNCHANGED <<table, now, nextOp, exposed, failures, updateCreateSupported,
                   jobs, ex, nextJob, rd, enableMultiTenancy,
                   attributesToDeloadForResourceType, streamVars, codec>>

\* deleteVersionedResource(id, versionId) of one version: the guarded transition
\* AVAILABLE -> DELETED
HybridDeleteItem(c, t, fails) ==
    /\ cl[c].pc = "hybridDelete"
    /\ t \in cl[c].tasks
    /\ t.kind = "item"
    /\ Transient(fails)
    /\ LET id == cl[c].requests[1].id
           d == buildUpdateDocumentStatusParam(AVAILABLE, DELETED, id, t.vid,
                                               ResourceType, now)
           result == IF fails THEN "error"
                     ELSE IF ConditionHolds(table, d) THEN "ok" ELSE "ResourceNotFound"
       IN /\ table' = IF result = "ok" THEN ApplyWrite(table, d) ELSE table
          /\ Settle(c, t, result)
    /\ UNCHANGED <<now, nextOp, exposed, updateCreateSupported, blobs, jobs, ex, nextJob,
                   rd, enableMultiTenancy, attributesToDeloadForResourceType>>
    /\ Streamed

----------------------------------------------------------------------------
(* Export registry (specification 4.7) *)

MAXIMUM_CONCURRENT_REQUEST_PER_USER == 1
MAXIMUM_SYSTEM_LEVEL_CONCURRENT_REQUESTS == 2

\* the query of the job-status index answering for in-progress only
JobsInStatusInProgressOnly(jobStatus) ==
    {j \in JobIds : jobStatus = "in-progress" /\ jobs[j].jobStatus = jobStatus}

\* buildQueryExportRequestJobStatus: the rows of the job-status index of one status
JobsInStatus(jobStatus) == {j \in JobIds : jobs[j].jobStatus = jobStatus}

OwnedIn(jobStatus, user) == {j \in JobsInStatus(jobStatus) : jobs[j].jobOwnerId = user}

storeVars ==
    <<table, now, cl, nextOp, journal, chain, exposed, failures, updateCreateSupported, blobs,
      enableMultiTenancy,
      attributesToDeloadForResourceType, streamVars, codec>>

\* the response of a call of the export registry, kept in rd: the requester in id,
\* the jobId in vid
ExportOutcome(api, user, jobId, result) ==
    [api |-> api, resourceType |-> "$export", id |-> user, vid |-> jobId,
     result |-> result, resource |-> <<>>]

\* initiateExport, step 1: the in-progress jobs; refused if the requester owns one
ExportQueryInProgress(s, user) ==
    /\ ex[s].pc = "idle"
    /\ nextJob <= MaxJobs
    /\ IF Cardinality(OwnedIn("in-progress", user)) >= MAXIMUM_CONCURRENT_REQUEST_PER_USER
       THEN /\ ex' = [ex EXCEPT ![s] = NoExport]
            /\ rd' = ExportOutcome("initiateExport", user, 0,
                                   "TooManyConcurrentExportRequests")
       ELSE /\ ex' = [ex EXCEPT ![s] =
                        [NoExport EXCEPT !.pc = "queryCanceling", !.requesterUserId = user]]
            /\ rd' = rd
    /\ UNCHANGED <<storeVars, jobs, nextJob>>

\* step 2: the canceling jobs; refused if the requester owns one
ExportQueryCanceling(s) ==
    /\ ex[s].pc = "queryCanceling"
    /\ IF Cardinality(OwnedIn("canceling", ex[s].requesterUserId))
             >= MAXIMUM_CONCURRENT_REQUEST_PER_USER
       THEN /\ ex' = [ex EXCEPT ![s] = NoExport]
            /\ rd' = ExportOutcome("initiateExport", ex[s].requesterUserId, 0,
                                   "TooManyConcurrentExportRequests")
       ELSE /\ ex' = [ex EXCEPT ![s].pc = "countInProgress"]
            /\ rd' = rd
    /\ UNCHANGED <<storeVars, jobs, nextJob>>

\* step 3: both statuses, system-wide
ExportCountInProgress(s) ==
    /\ ex[s].pc = "countInProgress"
    /\ ex' = [ex EXCEPT ![s].pc = "countCanceling",
                        ![s].count = Cardinality(JobsInStatus("in-progress"))]
    /\ UNCHANGED <<storeVars, jobs, nextJob, rd>>

ExportCountCanceling(s) ==
    /\ ex[s].pc = "countCanceling"
    /\ IF ex[s].count + Cardinality(JobsInStatus("canceling"))
             >= MAXIMUM_SYSTEM_LEVEL_CONCURRENT_REQUESTS
       THEN /\ ex' = [ex EXCEPT ![s] = NoExport]
            /\ rd' = ExportOutcome("initiateExport", ex[s].requesterUserId, 0,
                                   "TooManyConcurrentExportRequests")
       ELSE /\ ex' = [ex EXCEPT ![s].pc = "insert", ![s].count = 0]
            /\ rd' = rd
    /\ UNCHANGED <<storeVars, jobs, nextJob>>

\* step 4: buildPutCreateExportRequest, a put without condition under a fresh jobId
ExportInsert(s) ==
    /\ ex[s].pc = "insert"
    /\ nextJob <= MaxJobs
    /\ jobs' = [jobs EXCEPT ![nextJob] = [jobOwnerId |-> ex[s].requesterUserId,
                                          jobStatus |-> "in-progress"]]
    /\ nextJob' = nextJob + 1
    /\ ex' = [ex EXCEPT ![s] = NoExport]
    /\ rd' = ExportOutcome("initiateExport", ex[s].requesterUserId, nextJob, "ok")
    /\ UNCHANGED storeVars

\* cancelExport: the point-get of the job ...
CancelGet(s, j) ==
    /\ ex[s].pc = "idle"
    /\ IF jobs[j].jobStatus = "none"
       THEN /\ ex' = [ex EXCEPT ![s] = NoExport]
            /\ rd' = ExportOutcome("cancelExport", "", j, "ResourceNotFound")
       ELSE IF jobs[j].jobStatus \in {"failed", "completed", "canceled"}
       THEN /\ ex' = [ex EXCEPT ![s] = NoExport]
            /\ rd' = ExportOutcome("cancelExport", "", j, "JobCannotBeCanceled")
       ELSE /\ ex' = [ex EXCEPT ![s] = [NoExport EXCEPT !.pc = "cancelUpdate", !.jobId = j]]
            /\ rd' = rd
    /\ UNCHANGED <<storeVars, jobs, nextJob>>

\* the update writing the final status canceled at once
CancelUpdateAsCanceled(s) ==
    /\ ex[s].pc = "cancelUpdate"
    /\ jobs' = IF jobs[ex[s].jobId] # NoJob
               THEN [jobs EXCEPT ![ex[s].jobId].jobStatus = "canceled"] ELSE jobs
    /\ ex' = [ex EXCEPT ![s] = NoExport]
    /\ rd' = ExportOutcome("cancelExport", "", ex[s].jobId, "ok")
    /\ UNCHANGED <<storeVars, nextJob>>

\* ... then buildUpdateExportRequestJobStatus(jobId, 'canceling'), guarded by jobId only
CancelUpdate(s) ==
    /\ ex[s].pc = "cancelUpdate"
    /\ jobs' = IF jobs[ex[s].jobId] # NoJob
               THEN [jobs EXCEPT ![ex[s].jobId].jobStatus = "canceling"] ELSE jobs
    /\ ex' = [ex EXCEPT ![s] = NoExport]
    /\ rd' = ExportOutcome("cancelExport", "", ex[s].jobId, "ok")
    /\ UNCHANGED <<storeVars, nextJob>>

\* the export worker ends a job
ExportJobEnds(j) ==
    /\ jobs[j].jobStatus \in {"in-progress", "canceling"}
    /\ jobs' = [jobs EXCEPT ![j].jobStatus =
                  IF jobs[j].jobStatus = "canceling" THEN "canceled" ELSE "completed"]
    /\ UNCHANGED <<storeVars, ex, nextJob, rd>>

\* the export worker gives a job up
ExportJobFails(j) ==
    /\ jobs[j].jobStatus \in {"in-progress", "canceling"}
    /\ jobs' = [jobs EXCEPT ![j].jobStatus = "failed"]
    /\ UNCHANGED <<storeVars, ex, nextJob, rd>>

----------------------------------------------------------------------------
(* Item codec: DynamoDbUtil.prepItemForDdbInsert and DynamoDbUtil.cleanItem *)

\* String.indexOf: the first position (from 1) of sub in s, 0 when there is none
IndexOf(s, sub) ==
    LET at == {i \in 1..(Len(s) - Len(sub) + 1) : SubSeq(s, i, i + Len(sub) - 1) = sub}
    IN IF at = {} THEN 0 ELSE CHOOSE i \in at : \A j \in at : i <= j

\* DynamoDbUtil.cleanItemId: the id cut at the first occurrence of the tenantId
cleanItemId(id, tenantId) ==
    IF tenantId = NoTenant THEN id
    ELSE IF IndexOf(id, tenantId) # 0 THEN SubSeq(id, 1, IndexOf(id, tenantId) - 1)
    ELSE id

hasTenantId(tenantId) == tenantId # NoTenant

\* the character between an id and a vid in a full id
SEPARATOR == "_"

\* id.split(SEPARATOR)[0]
SplitFirst(id) ==
    IF IndexOf(id, <<SEPARATOR>>) = 0 THEN id ELSE SubSeq(id, 1, IndexOf(id, <<SEPARATOR>>) - 1)

\* the fields cleanItem deletes; tenantId only from an item that has one
InternalFields == {"documentStatus", "lockEndTs", "vid", "_references"}

\* the values of the keys of flatten(resource) that end with '.reference'
References(resource) ==
    {resource[f].reference : f \in DOMAIN resource \ {"id", "resourceType", "name", "meta"}}

\* generateMeta and the merge into item.meta
StampedMeta(resource, vid, ts) ==
    LET own == IF "meta" \in DOMAIN resource THEN resource.meta ELSE <<>>
    IN [g \in DOMAIN own \cup {"versionId", "lastUpdated"} |->
           IF g = "versionId" THEN ToString(vid)
           ELSE IF g = "lastUpdated" THEN ts
           ELSE own[g]]

\* DynamoDbUtil.prepItemForDdbInsert on a resource (a function of its field names)
encodeForInsert(resource, id, vid, documentStatus, tenantId, ts) ==
    [f \in DOMAIN resource \cup {"id", "vid", "meta", "documentStatus", "lockEndTs",
                                 "_references"}
                           \cup (IF tenantId # NoTenant THEN {"tenantId"} ELSE {}) |->
        CASE f = "id" -> id \o tenantId
          [] f = "tenantId" -> tenantId
          [] f = "vid" -> vid
          [] f = "meta" -> StampedMeta(resource, vid, ts)
          [] f = "documentStatus" -> documentStatus
          [] f = "lockEndTs" -> ts
          [] f = "_references" -> References(resource)
          [] OTHER -> resource[f]]

\* DynamoDbUtil.cleanItem without projection expression
decodeForRead(item) ==
    LET tenantId == IF "tenantId" \in DOMAIN item THEN item.tenantId ELSE NoTenant
        kept == DOMAIN item \ (InternalFields \cup {"tenantId"})
    IN [f \in kept |->
           IF f = "id" THEN SplitFirst(cleanItemId(item.id, tenantId)) ELSE item[f]]

\* a resource enters prepItemForDdbInsert
EncodeForInsert ==
    /\ codec.pc = "resource"
    /\ codec' = [codec EXCEPT !.pc = "item",
                    !.item = encodeForInsert(codec.resource, codec.id, codec.vid,
                                             codec.documentStatus, codec.tenantId, now)]
    /\ UNCHANGED <<table, now, cl, nextOp, journal, chain, exposed, failures,
                   updateCreateSupported, blobs, jobs, ex, nextJob, rd,
                   enableMultiTenancy, attributesToDeloadForResourceType, streamVars>>

\* the item is read back through cleanItem
DecodeForRead ==
    /\ codec.pc = "item"
    /\ codec' = [codec EXCEPT !.pc = "decoded", !.decoded = decodeForRead(codec.item)]
    /\ UNCHANGED <<table, now, cl, nextOp, journal, chain, exposed, failures,
                   updateCreateSupported, blobs, jobs, ex, nextJob, rd,
                   enableMultiTenancy, attributesToDeloadForResourceType, streamVars>>

----------------------------------------------------------------------------
(* Change propagator (specification 4.6): handleDdbToEsEvent *)

\* image.resourceType.toLowerCase()
Lowercase(resourceType) ==
    CASE resourceType = "Patient" -> "patient"
      [] resourceType = "Binary" -> "binary"
      [] OTHER -> "questionnaire"

isBinaryResource(image) == image.resourceType = "Binary"

\* the keyword fields of a new index
Properties(multiTenant) ==
    {"id", "resourceType", "documentStatus", "_references"}
       \cup (IF multiTenant THEN {"tenantId"} ELSE {})

\* createIndexIfNotExist: nothing is done for an index that exists
createIndexIfNotExist(s, name, multiTenant) ==
    IF ~s.index[name].exists
    THEN [s EXCEPT !.index[name] = [exists |-> TRUE, properties |-> Properties(multiTenant)],
                   !.alias[name] = TRUE]
    ELSE s

\* createIndexAndAliasIfNotExist on the search engine s
createIndexAndAliasIfNotExist(s, name, multiTenant) ==
    IF ~s.index[name].exists
    THEN [s EXCEPT !.index[name] = [exists |-> TRUE, properties |-> Properties(multiTenant)],
                   !.alias[name] = TRUE]
    ELSE IF ~s.alias[name]
    THEN [s EXCEPT !.alias[name] = TRUE]
    ELSE s

\* the parameters of one request of the bulk: a delete or an upsert by id
DeleteParam(r) ==
    [type |-> "delete", index |-> Lowercase(r.image.resourceType),
     id |-> cleanItemId(r.id, r.tenantId), doc |-> NoDoc]

UpsertParam(r) ==
    [type |-> "upsert", index |-> Lowercase(r.image.resourceType),
     id |-> cleanItemId(r.id, r.tenantId), doc |-> [vid |-> r.vid, image |-> r.image]]

getDeleteRecordPromiseParam(r) == <<DeleteParam(r)>>

\* getUpsertRecordPromiseParam: null (<<>>) for an item that is not steady
getUpsertRecordPromiseParam(r) ==
    IF r.image.documentStatus = AVAILABLE THEN <<UpsertParam(r)>>
    ELSE IF r.image.documentStatus = DELETED THEN <<DeleteParam(r)>>
    ELSE <<>>

\* the body of the loop without the test for binary resources
PromiseParamOfAnyResource(r) ==
    IF r.eventName = "REMOVE" THEN getDeleteRecordPromiseParam(r)
    ELSE getUpsertRecordPromiseParam(r)

\* the body of the loop of handleDdbToEsEvent for one record: what it pushes
PromiseParam(r) ==
    IF isBinaryResource(r.image) THEN <<>>
    ELSE IF r.eventName = "REMOVE" THEN getDeleteRecordPromiseParam(r)
    ELSE getUpsertRecordPromiseParam(r)

\* promiseParamAndIds after the first n records
RECURSIVE PromiseParams(_, _)
PromiseParams(records, n) ==
    IF n = 0 THEN <<>> ELSE PromiseParams(records, n - 1) \o PromiseParam(records[n])

\* the indices and aliases after the loop has passed the first n records
RECURSIVE EnsureIndices(_, _, _)
EnsureIndices(s, records, n) ==
    IF n = 0 THEN s
    ELSE LET t == EnsureIndices(s, records, n - 1)
             r == records[n]
         IN IF isBinaryResource(r.image) THEN t
            ELSE createIndexAndAliasIfNotExist(t, Lowercase(r.image.resourceType),
                                               hasTenantId(r.tenantId))

\* the image indexed without its id: the engine generates a document id
UpsertUnderGeneratedId(docs, p) ==
    LET free == {g \in GeneratedIds : docs[p.index][g] = NoDoc}
    IN IF free = {} THEN docs
       ELSE [docs EXCEPT ![p.index][CHOOSE g \in free : TRUE] = p.doc]

\* one request of the bulk
Upsert(docs, p) == [docs EXCEPT ![p.index][p.id] = p.doc]

ExecuteOne(docs, p) ==
    IF p.type = "upsert" THEN Upsert(docs, p) ELSE [docs EXCEPT ![p.index][p.id] = NoDoc]

\* logAndExecutePromises: the first k requests have been executed
RECURSIVE Execute(_, _, _)
Execute(s, params, k) ==
    IF k = 0 THEN s
    ELSE LET t == Execute(s, params, k - 1)
         IN [t EXCEPT !.docs = ExecuteOne(t.docs, params[k])]

\* handleDdbToEsEvent on the first n records of a shard. The loop passes
\* `looped` records before createIndexAndAliasIfNotExist fails (n: it does not fail),
\* `applied` requests are executed before the bulk fails (all: it may still fail);
\* when the handler throws, the feed delivers the records again.
HandleDdbToEsEvent(shard, n, looped, applied, thrown) ==
    LET records == SubSeq(feed[shard], 1, n)
        params == PromiseParams(records, looped)
    IN /\ n \in 1..Min(Len(feed[shard]), MaxBatch)
       /\ looped \in 0..n
       /\ looped < n => thrown /\ applied = 0 /\ ~isBinaryResource(records[looped + 1].image)
       /\ applied \in 0..Len(params)
       /\ ~thrown => applied = Len(params)
       /\ es' = Execute(EnsureIndices(es, records, looped), params, applied)
       /\ feed' = IF thrown THEN feed
                  ELSE [feed EXCEPT ![shard] = SubSeq(@, n + 1, Len(@))]
       /\ ddbToEs' = [shard |-> shard, records |-> records, looped |-> looped,
                      issued |-> params, applied |-> applied,
                      result |-> IF thrown THEN "thrown" ELSE "ok",
                      replay |-> /\ ddbToEs.shard = shard
                                 /\ ddbToEs.records = records
                                 /\ ddbToEs.looped = n
                                 /\ ddbToEs.applied = Len(ddbToEs.issued),
                      found |-> [index |-> es.index, alias |-> es.alias]]
       /\ UNCHANGED <<table, now, cl, nextOp, journal, chain, exposed, failures,
                      updateCreateSupported, blobs, jobs, ex, nextJob, rd,
                      enableMultiTenancy, attributesToDeloadForResourceType, streamEnabled,
                      codec>>

Tick ==
    /\ now < MaxTime * LOCK_DURATION_IN_MS
    /\ now' = now + LOCK_DURATION_IN_MS
    /\ UNCHANGED <<table, cl, nextOp, journal, chain, exposed, failures, updateCreateSupported,
                 blobs, jobs, ex, nextJob, rd, enableMultiTenancy,
      attributesToDeloadForResourceType, streamVars, codec>>

----------------------------------------------------------------------------
\* the steps of client c, its calls drawn from the ids and the bundles given
ClientStep(c, ids, bundles) ==
    \/ \E id \in ids : CreateResource(c, id)
    \/ \E id \in ids : DeleteRead(c, id)
    \/ DeleteWrite(c)
    \/ \E id \in ids : UpdateRead(c, id)
    \/ UpdateCreate(c)
    \/ \E b \in bundles : StartBundle(c, b)
    \/ Lookup(c)
    \/ \E f \in BOOLEAN : Stage(c, f)
    \/ \E f \in BOOLEAN : Commit(c, f)
    \/ \E f \in BOOLEAN : Rollback(c, f)

\* concurrent clients contending for the ids of SharedIds
Next ==
    \/ Tick
    \/ \E id \in SharedIds : ReadResource(id)
    \/ \E c \in Clients : ClientStep(c, SharedIds, BundlesOn(SharedIds))

Spec == Init /\ [][Next]_vars

\* one client, a reader and the clock
NextSeq ==
    \/ Tick
    \/ \E id \in Ids : ReadResource(id)
    \/ \E c \in SeqClients : ClientStep(c, Ids, BundlesOn(Ids))
    \/ \E c \in SeqClients, id \in MalformedIds : UpdateRead(c, id)

SpecSeq == Init /\ [][NextSeq]_vars

\* clients of the hybrid data service contending for the ids of SharedIds; an
\* updateResource continues in the bundle service
HybridStep(c, ids, tenants) ==
    \/ \E id \in ids, tn \in tenants : HybridCreate(c, id, tn)
    \/ \E id \in ids, tn \in tenants : HybridUpdateRead(c, id, tn)
    \/ \E f \in BOOLEAN : HybridUpload(c, f)
    \/ HybridPut(c)
    \/ HybridCleanup(c)
    \/ \E id \in ids, tn \in tenants : HybridDeleteRead(c, id, tn)
    \/ \E t \in cl[c].tasks : HybridDeleteBlob(c, t)
    \/ \E t \in cl[c].tasks, f \in BOOLEAN : HybridDeleteItem(c, t, f)
    \/ Lookup(c)
    \/ \E f \in BOOLEAN : Stage(c, f)
    \/ \E f \in BOOLEAN : Commit(c, f)
    \/ \E f \in BOOLEAN : Rollback(c, f)

\* the hybrid data service with the resource type of the requests registered
InitHybrid ==
    /\ InitStore
    /\ NoStream
    /\ enableMultiTenancy = FALSE
    /\ attributesToDeloadForResourceType = ResourceTypes

NextHybrid ==
    \/ \E c \in Clients : HybridStep(c, SharedIds, {FALSE})
    \/ \E id \in SharedIds : HybridReadResource(ResourceType, id, FALSE)

SpecHybrid == InitHybrid /\ [][NextHybrid]_vars

\* the hybrid data service in either tenancy mode, the resource type of the requests
\* registered or not, called with and without a tenantId
InitTenancy ==
    /\ InitStore
    /\ NoStream
    /\ enableMultiTenancy \in BOOLEAN
    /\ attributesToDeloadForResourceType \in {{RegisteredType}, ResourceTypes}

NextTenancy ==
    \/ \E c \in SeqClients : HybridStep(c, SharedIds, BOOLEAN)
    \/ \E c \in SeqClients : UpdateCreate(c)
    \/ \E id \in SharedIds, tn \in BOOLEAN : HybridReadResource(ResourceType, id, tn)
    \/ \E id \in SharedIds, v \in Vids, tn \in BOOLEAN :
          HybridVReadResource(ResourceType, id, v, tn)

SpecTenancy == InitTenancy /\ [][NextTenancy]_vars

\* concurrent sessions of the export registry
ExportStep(s) ==
    \/ \E user \in Users : ExportQueryInProgress(s, user)
    \/ ExportQueryCanceling(s)
    \/ ExportCountInProgress(s)
    \/ ExportCountCanceling(s)
    \/ ExportInsert(s)
    \/ \E j \in JobIds : CancelGet(s, j)
    \/ CancelUpdate(s)

NextExport ==
    \/ \E s \in Sessions : ExportStep(s)
    \/ \E j \in JobIds : ExportJobEnds(j)

SpecExport == Init /\ [][NextExport]_vars

\* one session of the export registry: a call runs to its end before the worker
\* or the next call acts
SeqSessions == {"s1"}

NoCallOpen == \A s \in Sessions : ex[s].pc = "idle"

NextExportSeq ==
    \/ \E s \in SeqSessions : ExportStep(s)
    \/ \E j \in JobIds : NoCallOpen /\ ExportJobEnds(j)
    \/ \E j \in JobIds : NoCallOpen /\ ExportJobFails(j)

SpecExportSeq == Init /\ [][NextExportSeq]_vars

\* the change propagator on the feed of a table written by one client: the store
\* starts empty, and so do the feed and the search engine
InitStream ==
    /\ InitStore
    /\ updateCreateSupported = TRUE
    /\ enableMultiTenancy = FALSE
    /\ attributesToDeloadForResourceType = {RegisteredType}
    /\ streamEnabled = TRUE
    /\ feed = [i \in AllIds |-> <<>>]
    /\ es = NoSearch
    /\ ddbToEs = NoEvent

PropagatorStep(shards) ==
    \E shard \in shards, n \in 1..MaxBatch, looped \in 0..MaxBatch,
       applied \in 0..MaxBatch, thrown \in BOOLEAN :
          HandleDdbToEsEvent(shard, n, looped, applied, thrown)

NextStream ==
    \/ \E c \in SeqClients : ClientStep(c, SharedIds, BundlesOn(SharedIds))
    \/ PropagatorStep(SharedIds)

SpecStream == InitStream /\ [][NextStream]_vars

\* the change propagator applied to every batch of at most MaxBatch records of one
\* shard, on every state of the index and the alias of the resource type
DocumentStatuses == {AVAILABLE, LOCKED, PENDING, PENDING_DELETE, DELETED}

TenantIds == {NoTenant, <<"t">>}

\* the images of a version in every status, of a later version, of a version with
\* a tenant, and of a binary resource
FeedImages ==
    {[id |-> Str(i), vid |-> 1, tenantId |-> NoTenant,
      image |-> prepItemForDdbInsert(1, 0, ResourceType, st, 0)] :
        i \in SharedIds, st \in DocumentStatuses}
    \cup {[id |-> Str(i) \o tn, vid |-> v, tenantId |-> tn,
           image |-> prepItemForDdbInsert(v, 0, ResourceType, AVAILABLE, 0)] :
             i \in SharedIds, tn \in TenantIds, v \in 1..2}
    \cup {[id |-> Str(i), vid |-> 1, tenantId |-> NoTenant,
           image |-> prepItemForDdbInsert(1, 0, "Binary", AVAILABLE, 0)] : i \in SharedIds}

FeedRecords ==
    {FeedRecord(e, m.id, m.vid, m.tenantId, m.image) :
        e \in {"INSERT", "MODIFY", "REMOVE"}, m \in FeedImages}

Batches == UNION {[1..n -> FeedRecords] : n \in 1..MaxBatch}

SearchStates ==
    {NoSearch}
    \cup {[NoSearch EXCEPT !.index["patient"] = [exists |-> TRUE, properties |-> Properties(mt)],
                           !.alias["patient"] = al] : mt \in BOOLEAN, al \in BOOLEAN}

InitPropagator ==
    /\ InitStore
    /\ updateCreateSupported = TRUE
    /\ enableMultiTenancy = FALSE
    /\ attributesToDeloadForResourceType = {RegisteredType}
    /\ streamEnabled = TRUE
    /\ \E b \in Batches : feed = [i \in AllIds |-> IF i \in SharedIds THEN b ELSE <<>>]
    /\ es \in SearchStates
    /\ ddbToEs = NoEvent

NextPropagator == PropagatorStep(SharedIds)

SpecPropagator == InitPropagator /\ [][NextPropagator]_vars

\* the codec applied to resources with and without id, meta and reference, under
\* every id of at most MaxIdLen characters, with and without tenant
IdChars == {"a", "t"}

CodecIds == UNION {[1..n -> IdChars] : n \in 1..MaxIdLen}

Resources ==
    LET meta == [versionId |-> "9", lastUpdated |-> 7, tag |-> "x"]
    IN {[resourceType |-> ResourceType, name |-> "n"],
        [resourceType |-> ResourceType, name |-> "n", id |-> <<"a">>],
        [resourceType |-> ResourceType, name |-> "n", id |-> <<"t">>, meta |-> meta],
        [resourceType |-> ResourceType, name |-> "n", meta |-> meta,
         subject |-> [reference |-> "Patient/p"]]}

InitCodec ==
    /\ InitTable
    /\ NoStream
    /\ updateCreateSupported = TRUE
    /\ enableMultiTenancy = FALSE
    /\ attributesToDeloadForResourceType = {RegisteredType}
    /\ \E r \in Resources, id \in CodecIds, vid \in Vids, st \in DocumentStatuses,
          tn \in TenantIds :
          codec = [pc |-> "resource", resource |-> r, id |-> id, vid |-> vid,
                   documentStatus |-> st, tenantId |-> tn, item |-> <<>>, decoded |-> <<>>]

NextCodec == EncodeForInsert \/ DecodeForRead

SpecCodec == InitCodec /\ [][NextCodec]_vars

\* the reads, applied to every chain of at most MaxVid versions of one id and to
\* every content of the object its items link to
ReadItems ==
    {NoItem}
    \cup {prepItemForDdbInsert(1, 0, ResourceType, st, 0) :
             st \in {AVAILABLE, LOCKED, PENDING, PENDING_DELETE, DELETED}}
    \cup {prepItemForDdbInsert(1, 1, RegisteredType, st, 0) :
             st \in {AVAILABLE, LOCKED, PENDING, PENDING_DELETE, DELETED}}

ReadBlobs == {NoBlob, detachPayloadFromResource(1, 1), detachPayloadFromResource(1, 2)}

InitRead ==
    /\ \E f \in [Vids -> ReadItems] :
          /\ \A v \in Vids : f[v] # NoItem => \A w \in 1..v : f[w] # NoItem
          /\ table = [k \in AllIds \X Vids |->
                         IF k[1] \in SharedIds THEN f[k[2]] ELSE NoItem]
    /\ \E b \in ReadBlobs : blobs = [k \in Ops |-> IF k = 1 THEN b ELSE NoBlob]
    /\ enableMultiTenancy = FALSE
    /\ attributesToDeloadForResourceType = {RegisteredType}
    /\ now = 0
    /\ cl = [c \in Clients |-> Idle]
    /\ nextOp = 1
    /\ journal = [o \in Ops |-> NoCall]
    /\ chain = [i \in Ids |-> NoChain]
    /\ exposed = {}
    /\ failures = 0
    /\ updateCreateSupported = FALSE
    /\ jobs = [j \in JobIds |-> NoJob]
    /\ ex = [u \in Sessions |-> NoExport]
    /\ nextJob = 1
    /\ rd = NoRead
    /\ NoStream
    /\ codec = NoCodec

NextRead ==
    \/ \E t \in ResourceTypes, id \in SharedIds : DataReadResource(t, id)
    \/ \E t \in ResourceTypes, id \in SharedIds, v \in Vids : DataVReadResource(t, id, v)
    \/ \E t \in ResourceTypes, id \in SharedIds, tn \in BOOLEAN : HybridReadResource(t, id, tn)
    \/ \E t \in ResourceTypes, id \in SharedIds, v \in Vids, tn \in BOOLEAN :
          HybridVReadResource(t, id, v, tn)

SpecRead == InitRead /\ [][NextRead]_vars

----------------------------------------------------------------------------
(* Properties *)

Readable(id) == getMostRecentUserReadableResource(table, ResourceType, id)

TransientStatus == {PENDING, LOCKED, PENDING_DELETE}

Failed == {"error", "errorNotUndone"}

\* C1: a readResource that succeeds returns an item whose documentStatus is
\* AVAILABLE, LOCKED or PENDING_DELETE, never a PENDING or DELETED one, also when
\* the top version is PENDING and the read falls back to the second version.
C1_ReadReturnsCommitted ==
    \A id \in Ids :
        Readable(id).found =>
            Readable(id).item.documentStatus \in {AVAILABLE, LOCKED, PENDING_DELETE}

\* C2: when a bundle has failed and its rollback has completed, every version it
\* inserted for a create or an update is gone and readResource shows for that id
\* what it showed before the bundle, and every target of a staged delete is
\* AVAILABLE.
C2_RollbackRestores ==
    [][\A c \in Clients :
        (/\ cl[c].pc \in {"stage", "commit", "rollback"}
         /\ cl'[c].pc = "idle"
         /\ journal'[cl[c].op].result = "error")
        => \A k \in 1..Len(cl[c].staged) :
              LET e == cl[c].staged[k]
              IN IF e.operation = "delete"
                 THEN table'[<<e.id, e.vid>>].documentStatus = AVAILABLE
                 ELSE /\ table'[<<e.id, e.vid>>].writer # cl[c].op
                      /\ getMostRecentUserReadableResource(table', ResourceType, e.id)
                            = cl[c].before[e.id]]_vars

\* C3: no readResource ever returns a version written by a bundle that ends in
\* failure, whether the bundle fails before its commit or part-way through the
\* sub-batches of its staging or its commit.
C3_NoFailedVersionRead ==
    \A w \in exposed : journal[w].result \notin Failed

\* two calls that were in flight at the same time and both returned success
BothCommitted(w1, w2) ==
    /\ w1 # w2
    /\ w2 \in journal[w1].during
    /\ journal[w1].result = "ok"
    /\ journal[w2].result = "ok"

\* C4: when two concurrent updates of one id both report success, the chain
\* holds both new versions under distinct vids, neither overwritten by the
\* other, and the vids increase in commit order.
C4_ConcurrentUpdatesBothKept ==
    \A w1, w2 \in Ops :
        BothCommitted(w1, w2) =>
            \A id \in Ids : \A v1, v2 \in Vids :
                (<<id, v1>> \in journal[w1].updated /\ <<id, v2>> \in journal[w2].updated)
                => /\ v1 # v2
                   /\ table[<<id, v1>>].writer = w1
                   /\ table[<<id, v2>>].writer = w2
                   /\ (journal[w1].rank < journal[w2].rank) => (v1 < v2)

\* C5: of two concurrent bundles that touch a common id and both commit, the
\* one that commits second has observed, in its phase 0, the common resource in
\* AVAILABLE and, where the first has written a version of it, that version.
C5_ConcurrentBundlesSerialise ==
    \A w1, w2 \in Ops :
        (/\ BothCommitted(w1, w2)
         /\ journal[w1].api \in {"bundle", "update"}
         /\ journal[w2].api \in {"bundle", "update"}
         /\ journal[w1].rank < journal[w2].rank)
        => \A id \in journal[w1].ids \cap journal[w2].ids :
              /\ journal[w2].seen[id].documentStatus = AVAILABLE
              /\ (\E v \in Vids : <<id, v>> \in journal[w1].updated)
                    => journal[w2].seen[id].writer = w1

TransientVids(id) == {v \in Vids : table[<<id, v>>].documentStatus \in TransientStatus}

\* C6: every chain has at most one item in PENDING, LOCKED or PENDING_DELETE,
\* unless one of its transient items has an expired lock (a reclaim is possible).
C6_OneTransientPerChain ==
    \A id \in Ids :
        \/ Cardinality(TransientVids(id)) <= 1
        \/ \E v \in TransientVids(id) : table[<<id, v>>].lockEndTs < now

\* C7: on an id that only single-resource calls have touched, all of them
\* returned: readResource returns vid 1 after the create, vid N + 1 after N
\* further updates, and ResourceNotFound after a delete.
C7_SequentialVids ==
    \A id \in Ids :
        chain[id].pure =>
            IF chain[id].deleted \/ ~chain[id].created
            THEN ~Readable(id).found
            ELSE /\ Readable(id).found
                 /\ Readable(id).vid = chain[id].updates + 1

C7_Witness ==
    \E id \in Ids :
        /\ chain[id].pure
        /\ chain[id].created
        /\ chain[id].updates >= 1
        /\ chain[id].deleted

Quiescent == \A c \in Clients : cl[c].pc = "idle"

\* the vids of id that readResource or vReadResource can return
ReturnableVids(id) ==
    {v \in Vids : table[<<id, v>>].documentStatus = AVAILABLE}
    \cup (IF Readable(id).found THEN {Readable(id).vid} ELSE {})

\* C8: when no call is in flight, every item a read can return and that carries
\* bulkDataLink has an object stored under that key whose link field is the key.
C8_LinkedBlobExists ==
    Quiescent =>
        \A id \in Ids : \A v \in ReturnableVids(id) :
            table[<<id, v>>].bulkDataLink # 0 =>
                blobs[table[<<id, v>>].bulkDataLink].link = table[<<id, v>>].bulkDataLink

ActiveJobs == JobsInStatus("in-progress") \cup JobsInStatus("canceling")

\* C9: at most one job of each requester, and at most two jobs in all, are
\* in-progress or canceling.
C9_ExportCaps ==
    /\ \A u \in Users :
          Cardinality({j \in ActiveJobs : jobs[j].jobOwnerId = u})
             <= MAXIMUM_CONCURRENT_REQUEST_PER_USER
    /\ Cardinality(ActiveJobs) <= MAXIMUM_SYSTEM_LEVEL_CONCURRENT_REQUESTS

\* the call o returns in this step
Returns(o) ==
    /\ journal[o].result \in {"none", "run"}
    /\ journal'[o].result \notin {"none", "run"}

\* the call o is a createResource of id, or an updateResource creating id
CreatesId(o, id) ==
    \/ journal[o].result = "none" /\ journal'[o].api = "create" /\ journal'[o].ids = {id}
    \/ \E c \in Clients :
          cl[c].op = o /\ cl[c].pc = "updateCreate" /\ cl[c].requests[1].id = id

\* C10: a createResource, or an update-as-create, of an id whose item of vid 1
\* exists fails with InvalidResource and leaves the table as it was.
C10_CreateOnExistingFails ==
    [][\A o \in Ops : \A id \in Ids :
        (Returns(o) /\ CreatesId(o, id) /\ table[<<id, 1>>] # NoItem)
        => (journal'[o].result = "InvalidResource" /\ table' = table)]_vars

C10_Witness ==
    \E o \in Ops : journal[o].api = "create" /\ journal[o].result = "InvalidResource"

\* C11: vReadResource fails with VersionNotFound when the item is absent, when its
\* resourceType is not the requested one, or when its documentStatus is not AVAILABLE;
\* otherwise it returns the item without vid, documentStatus, lockEndTs and _references.
C11_VReadAvailableOnly ==
    rd.api = "vReadResource" =>
        LET item == table[<<rd.id, rd.vid>>]
        IN IF item = NoItem \/ item.resourceType # rd.resourceType
              \/ item.documentStatus # AVAILABLE
           THEN rd.result = "VersionNotFound"
           ELSE /\ rd.result = "ok"
                /\ DOMAIN rd.resource \cap HiddenFields = {}
                /\ rd.resource.id = rd.id
                /\ rd.resource.writer = item.writer

C13_UpdateUnreadable ==
    [][\A c \in SeqClients : \A id \in AllIds :
          /\ (/\ nextOp' = nextOp + 1
              /\ journal'[nextOp].api = "update"
              /\ journal'[nextOp].ids = {id}
              /\ ~getMostRecentUserReadableResource(table, ResourceType, id).found)
             => /\ ~updateCreateSupported
                   => journal'[nextOp].result = "ResourceNotFound" /\ table' = table
                /\ updateCreateSupported /\ ~UuidLike(id)
                   => journal'[nextOp].result = "InvalidResource" /\ table' = table
                /\ updateCreateSupported /\ UuidLike(id)
                   => cl'[c].pc = "updateCreate" /\ table' = table
          /\ (cl[c].pc = "updateCreate" /\ cl[c].requests[1].id = id /\ cl'[c].pc = "idle")
             => /\ journal'[cl[c].op].result = "ok"
                /\ table'[<<id, 1>>].documentStatus = AVAILABLE
                /\ table'[<<id, 1>>].writer = cl[c].op]_vars

\* C14: for a registered resource type, after a hybrid createResource or updateResource
\* of r has returned, the item carries bulkDataLink and none of the offloaded fields,
\* exactly one blob holds {link, data} with data the offloaded fields of r, and the
\* readResource that follows returns r with the fields restored and no bulkDataLink.
C14_RoundTrip ==
    [][\A o \in Ops : \A id \in SharedIds :
          (/\ journal[o].api \in {"hybridCreate", "hybridUpdate"}
           /\ journal[o].result = "ok"
           /\ journal[o].ids = {id}
           /\ journal[o].during = {}
           /\ nextOp = o + 1
           /\ rd' # rd
           /\ rd'.api = "hybridReadResource"
           /\ rd'.id = id)
          => /\ \E v \in Vids :
                   LET item == table[<<id, v>>]
                   IN /\ item.writer = o
                      /\ item.bulkDataLink # 0
                      /\ item.attrs = 0
                      /\ blobs[item.bulkDataLink] = [link |-> item.bulkDataLink, data |-> o]
             /\ Cardinality({k \in Ops : blobs[k].data = o}) = 1
             /\ rd'.result = "ok"
             /\ rd'.resource.writer = o
             /\ rd'.resource.attrs = o
             /\ rd'.resource.bulkDataLink = 0]_vars

\* a read has returned the resource of an updateResource, its payload attached
C14_Witness ==
    /\ rd.api = "hybridReadResource"
    /\ rd.result = "ok"
    /\ journal[rd.resource.writer].api = "hybridUpdate"
    /\ journal[rd.resource.writer].result = "ok"
    /\ journal[rd.resource.writer].during = {}
    /\ nextOp = rd.resource.writer + 1
    /\ rd.resource.attrs = rd.resource.writer

\* the item a read of the data service returned: the most recent readable version for
\* readResource, the version asked for for vReadResource
ItemRead ==
    IF rd.api = "hybridReadResource"
    THEN getMostRecentUserReadableResource(table, rd.resourceType, rd.id).item
    ELSE table[<<rd.id, rd.vid>>]

\* C15: a hybrid readResource or vReadResource of an item that carries bulkDataLink fails
\* with ResourceNotFound when the blob is missing or its link differs from bulkDataLink,
\* and a successful read never returns the resource without its offloaded fields or
\* with bulkDataLink.
C15_BlobFailureIsNotFound ==
    (/\ rd.api \in {"hybridReadResource", "hybridVReadResource"}
     /\ rd.result \notin {"TenancyMismatch", "VersionNotFound"}
     /\ ItemRead # NoItem
     /\ ItemRead.bulkDataLink # 0)
    => /\ (\/ blobs[ItemRead.bulkDataLink] = NoBlob
           \/ blobs[ItemRead.bulkDataLink].link # ItemRead.bulkDataLink)
          => rd.result = "ResourceNotFound"
       /\ rd.result = "ok"
          => /\ rd.resource.bulkDataLink = 0
             /\ rd.resource.attrs = blobs[ItemRead.bulkDataLink].data
             /\ rd.resource.attrs # 0

\* a vReadResource failed because the stored object carries another link
C15_Witness ==
    /\ rd.api = "hybridVReadResource"
    /\ rd.result = "ResourceNotFound"
    /\ ItemRead # NoItem
    /\ ItemRead.bulkDataLink # 0
    /\ blobs[ItemRead.bulkDataLink] # NoBlob
    /\ blobs[ItemRead.bulkDataLink].link # ItemRead.bulkDataLink

\* the items operation o has written
WrittenBy(tbl, o) == {k \in DOMAIN tbl : tbl[k].writer = o}

\* C16: when the blob upload of a hybrid createResource or updateResource fails, the
\* call ends with the upload's error and the primary store is not written: no item of
\* the call exists while its upload is outstanding or after its upload has failed.
C16_UploadBeforePrimaryWrite ==
    [][/\ \A c \in Clients :
            (cl[c].pc = "hybridUpload" /\ cl'[c] # cl[c] /\ failures' = failures + 1)
            => /\ journal'[cl[c].op].result = "uploadError"
               /\ cl'[c].pc = "idle"
               /\ table' = table
               /\ blobs' = blobs
       /\ \A c \in Clients : cl'[c].pc = "hybridUpload" => WrittenBy(table', cl'[c].op) = {}
       /\ \A o \in Ops : journal'[o].result = "uploadError" => WrittenBy(table', o) = {}]_vars

\* the upload of an updateResource has failed
C16_Witness ==
    \E o \in Ops : /\ journal[o].api = "hybridUpdate"
                    /\ journal[o].result = "uploadError"
                    /\ \E k \in DOMAIN table : table[k] # NoItem

C18_DeleteRemovesAllVersions ==
    [][\A c \in Clients :
          (/\ cl[c].pc = "hybridDelete"
           /\ cl'[c].pc = "idle"
           /\ journal'[cl[c].op].result = "ok"
           /\ journal'[cl[c].op].during = {})
          => LET id == cl[c].requests[1].id
                 all == {v \in Vids : table'[<<id, v>>] # NoItem}
             IN /\ cl[c].versions = all
                /\ \A v \in all :
                      /\ table'[<<id, v>>].documentStatus = DELETED
                      /\ table'[<<id, v>>].bulkDataLink # 0
                      /\ blobs'[table'[<<id, v>>].bulkDataLink] = NoBlob]_vars

\* a deleteResource has succeeded on a resource of two versions, each with a blob
C18_Witness ==
    \E o \in Ops : \E id \in SharedIds :
        /\ journal[o].api = "hybridDelete"
        /\ journal[o].result = "ok"
        /\ journal[o].ids = {id}
        /\ journal[o].during = {}
        /\ nextOp = o + 1
        /\ \A v \in {1, 2} : /\ table[<<id, v>>].documentStatus = DELETED
                              /\ table[<<id, v>>].bulkDataLink # 0
                              /\ blobs[table[<<id, v>>].bulkDataLink] = NoBlob

\* C19: when a hybrid deleteResource could not delete a version in the primary store,
\* it does not throw but returns a response whose success is false, the blob of every
\* version whose delete failed is kept, and the blob of every version whose delete
\* succeeded is removed.
C19_FailedDeleteKeepsBlob ==
    [][\A c \in Clients :
          LET id == cl[c].requests[1].id
          IN (/\ cl[c].pc = "hybridDelete"
              /\ cl'[c].pc = "idle"
              /\ \E v \in cl[c].versions : table'[<<id, v>>].documentStatus # DELETED)
             => /\ journal'[cl[c].op].result = "notSuccessful"
                /\ \A v \in cl[c].versions :
                      LET item == table'[<<id, v>>]
                      IN item.bulkDataLink # 0
                         => IF item.documentStatus = DELETED
                            THEN blobs'[item.bulkDataLink] = NoBlob
                            ELSE blobs'[item.bulkDataLink] # NoBlob]_vars

\* C20: every hybrid readResource, vReadResource, createResource, updateResource and
\* deleteResource, of a registered or an unregistered resource type, that is called with
\* a tenantId while multi-tenancy is disabled, or without one while it is enabled, fails
\* at once: the call ends with the tenancy error in its first step and neither the
\* primary store nor the blob store is touched.
C20_TenancyAssertedFirst ==
    [][\A c \in SeqClients : \A id \in SharedIds : \A tn \in BOOLEAN :
          tn # enableMultiTenancy
          => /\ (\/ HybridCreate(c, id, tn)
                 \/ HybridUpdateRead(c, id, tn)
                 \/ HybridDeleteRead(c, id, tn))
                => /\ journal'[nextOp].result = "TenancyMismatch"
                   /\ cl' = cl
                   /\ table' = table
                   /\ blobs' = blobs
             /\ (\/ HybridReadResource(ResourceType, id, tn)
                 \/ \E v \in Vids : HybridVReadResource(ResourceType, id, v, tn))
                => rd'.result = "TenancyMismatch"]_vars

----------------------------------------------------------------------------
(* Export registry, one call at a time *)

\* the jobs that count against the caps, and those of one requester
CountedJobs == {j \in JobIds : jobs[j].jobStatus \in {"in-progress", "canceling"}}

CountedJobsOf(user) == {j \in CountedJobs : jobs[j].jobOwnerId = user}

\* the initiateExport of session s returns in this step
InitiateExportReturns(s) ==
    /\ rd'.api = "initiateExport"
    /\ ex'[s].pc = "idle"
    /\ ex[s].pc # "idle" \/ rd' # rd

CancelExportReturns(s) ==
    /\ rd'.api = "cancelExport"
    /\ ex'[s].pc = "idle"
    /\ ex[s].pc # "idle" \/ rd' # rd

\* C22: cancelExport(jobId) fails with ResourceNotFound when no job has the jobId,
\* fails and leaves the job as it is when its status is failed, completed or
\* canceled, and otherwise sets the status of the job, and nothing else, to canceling.
C22_CancelExport ==
    [][\A s \in SeqSessions :
          CancelExportReturns(s) =>
             LET job == jobs[rd'.vid]
             IN IF job = NoJob
                THEN rd'.result = "ResourceNotFound" /\ jobs' = jobs
                ELSE IF job.jobStatus \in {"failed", "completed", "canceled"}
                THEN rd'.result = "JobCannotBeCanceled" /\ jobs' = jobs
                ELSE /\ rd'.result = "ok"
                     /\ jobs' = [jobs EXCEPT ![rd'.vid].jobStatus = "canceling"]]_vars

\* a cancelExport has returned for a job, which is canceling, while a job that
\* failed exists
C22_Witness ==
    /\ rd.api = "cancelExport"
    /\ rd.result = "ok"
    /\ jobs[rd.vid].jobStatus = "canceling"
    /\ \E j \in JobIds : jobs[j].jobStatus = "failed"

----------------------------------------------------------------------------
(* Change propagator *)

\* every record of the feed has been processed and acknowledged
FeedConsumed == \A i \in AllIds : feed[i] = <<>>

\* the document of the resource id in the index of its resource type
DocumentOf(id) == es.docs[Lowercase(ResourceType)][Str(id)]

\* the version of the highest vid of the id
HeadVersion(id) == getMostRecentResource(table, ResourceType, id)

\* C23: when the feed has been consumed and no write is in flight, the index holds
\* a document for a resource id exactly when the head version of the id is
\* AVAILABLE, and the document is the image of that version.
C23_IndexConverges ==
    (FeedConsumed /\ Quiescent) =>
       \A id \in SharedIds :
          IF HeadVersion(id).found /\ HeadVersion(id).item.documentStatus = AVAILABLE
          THEN DocumentOf(id) = [vid |-> HeadVersion(id).vid, image |-> HeadVersion(id).item]
          ELSE DocumentOf(id) = NoDoc

\* the last invocation of the handler ran to its end: every record passed the loop
\* and every request was executed
ProcessedWhole(e) ==
    /\ e.looped = Len(e.records)
    /\ e.applied = Len(e.issued)

LogicalId(r) == SubSeq(r.id, 1, Len(r.id) - Len(r.tenantId))

\* the index operation of a record, as type and document id (<<>>: none)
OperationOf(r) ==
    IF r.image.resourceType = "Binary" THEN <<>>
    ELSE IF r.eventName = "REMOVE" THEN <<[type |-> "delete", id |-> LogicalId(r)]>>
    ELSE IF r.image.documentStatus = AVAILABLE THEN <<[type |-> "upsert", id |-> LogicalId(r)]>>
    ELSE IF r.image.documentStatus = DELETED THEN <<[type |-> "delete", id |-> LogicalId(r)]>>
    ELSE <<>>

RECURSIVE OperationsOf(_, _)
OperationsOf(records, n) ==
    IF n = 0 THEN <<>> ELSE OperationsOf(records, n - 1) \o OperationOf(records[n])

\* the requests an invocation has issued, as type and document id
Issued(e) == [k \in 1..Len(e.issued) |-> [type |-> e.issued[k].type, id |-> e.issued[k].id]]

\* C25: an invocation of the handler issues, for the records its loop has passed,
\* no operation for a binary resource, a delete by id for a REMOVE, an upsert for an
\* INSERT or MODIFY in AVAILABLE, none for one in PENDING, LOCKED or PENDING_DELETE
\* and a delete by id for one in DELETED; it returns without an error, and the feed
\* moves on, only when the loop has passed every record and every operation has
\* been executed.
C25_OperationPerRecord ==
    [][(ddbToEs' # ddbToEs \/ es' # es) =>
          /\ Issued(ddbToEs') = OperationsOf(ddbToEs'.records, ddbToEs'.looped)
          /\ (ddbToEs'.result = "ok" \/ feed' # feed) => ProcessedWhole(ddbToEs')]_vars

\* an invocation has returned without error for a batch with a binary resource and
\* a version in DELETED
C25_Witness ==
    /\ ddbToEs.result = "ok"
    /\ \E k \in 1..Len(ddbToEs.records) : ddbToEs.records[k].image.resourceType = "Binary"
    /\ \E k \in 1..Len(ddbToEs.records) :
          /\ ddbToEs.records[k].image.documentStatus = DELETED
          /\ ddbToEs.records[k].eventName = "MODIFY"

\* the records among the first n that are not binary resources
Indexed(records, n) == SelectSeq(SubSeq(records, 1, n), LAMBDA r : ~isBinaryResource(r.image))

\* C26: after createIndexAndAliasIfNotExist(type, multiTenant) the index of the
\* type exists under its alias: an index that was absent has been created with the
\* keyword fields id, resourceType, documentStatus and _references, and tenantId
\* exactly when multiTenant; an index that existed is as it was, with the alias
\* added if it had none; a further call changes nothing.
C26_IndexAndAlias ==
    [][(ddbToEs' # ddbToEs \/ es' # es) =>
          \A name \in IndexNames :
             LET calls == SelectSeq(Indexed(ddbToEs'.records, ddbToEs'.looped),
                                    LAMBDA r : Lowercase(r.image.resourceType) = name)
             IN IF calls = <<>>
                THEN es'.index[name] = es.index[name] /\ es'.alias[name] = es.alias[name]
                ELSE /\ es'.alias[name]
                     /\ es'.index[name].exists
                     /\ es'.index[name].properties =
                           IF es.index[name].exists THEN es.index[name].properties
                           ELSE {"id", "resourceType", "documentStatus", "_references"}
                                   \cup (IF calls[1].tenantId # NoTenant
                                         THEN {"tenantId"} ELSE {})
                     /\ \A mt \in BOOLEAN :
                           createIndexAndAliasIfNotExist(es', name, mt) = es']_vars

\* an invocation found the index of its records without alias, and the alias exists
C26_Witness ==
    /\ ddbToEs.looped >= 1
    /\ ~isBinaryResource(ddbToEs.records[1].image)
    /\ ddbToEs.found.index["patient"].exists
    /\ ~ddbToEs.found.alias["patient"]
    /\ es.alias["patient"]

----------------------------------------------------------------------------
(* Item codec *)

\* C27: the resource decoded from the item encoded for a resource r has the logical
\* id as its id, has none of the fields documentStatus, lockEndTs, vid, _references
\* and tenantId, and equals r on every other field, except that meta.versionId is
\* the vid as a string and meta.lastUpdated the time of the encoding.
C27_RoundTrip ==
    codec.pc = "decoded" =>
       LET r == codec.resource
           d == codec.decoded
           metaOf(x) == IF "meta" \in DOMAIN x THEN x.meta ELSE <<>>
       IN /\ d.id = codec.id
          /\ DOMAIN d \cap (InternalFields \cup {"tenantId"}) = {}
          /\ DOMAIN d = DOMAIN r \cup {"id", "meta"}
          /\ \A f \in DOMAIN r \ {"id", "meta"} : d[f] = r[f]
          /\ d.meta.versionId = ToString(codec.vid)
          /\ d.meta.lastUpdated = now
          /\ DOMAIN d.meta = DOMAIN metaOf(r) \cup {"versionId", "lastUpdated"}
          /\ \A g \in DOMAIN metaOf(r) \ {"versionId", "lastUpdated"} : d.meta[g] = r.meta[g]

----------------------------------------------------------------------------
(* Steady state *)

\* every call that has returned committed or undid all it had staged
AllSettled == \A o \in Ops : journal[o].result # "errorNotUndone"

ReachedAvailable == {AVAILABLE, LOCKED, PENDING_DELETE, DELETED}

\* what an item holds besides documentStatus and lockEndTs
Payload(item) ==
    [resourceType |-> item.resourceType, writer |-> item.writer, attrs |-> item.attrs,
     bulkDataLink |-> item.bulkDataLink]

\* C29: an item that has reached AVAILABLE is neither replaced nor changed in its
\* payload by any later step; only its documentStatus and its lockEndTs change.
C29_AvailableItemKept ==
    [][\A id \in Ids, v \in Vids :
          table[<<id, v>>].documentStatus \in ReachedAvailable
          => Payload(table'[<<id, v>>]) = Payload(table[<<id, v>>])]_vars

----------------------------------------------------------------------------
(* A bundle that stops for good, and a later writer (specification 4.4, 5) *)

Runner == "c1"

Writer == "c2"

\* the bundle of client c times out once its staging is complete or between two
\* sub-batches of phase 2: the call never returns and never runs its rollback
TimeOut(c) ==
    /\ cl[c].pc = "commit"
    /\ journal[cl[c].op].api = "bundle"
    /\ nextOp <= MaxOps
    /\ cl' = [cl EXCEPT ![c].pc = "timedOut"]
    /\ journal' = [journal EXCEPT ![cl[c].op].result = "timedOut"]
    /\ UNCHANGED <<table, now, nextOp, chain, exposed, failures, updateCreateSupported,
                   blobs, jobs, ex, nextJob, rd, enableMultiTenancy,
                   attributesToDeloadForResourceType, streamVars, codec>>

\* the ids of the requests of the bundle of c
Touched(c) == IdsOf(cl[c].requests)

\* LOCK_DURATION_IN_MS has passed since the bundle of c wrote the items it staged
LockExpired(c) ==
    \A k \in 1..Len(cl[c].staged) :
        LET e == cl[c].staged[k]
        IN table[<<e.id, e.vid>>] # NoItem =>
              table[<<e.id, e.vid>>].lockEndTs + LOCK_DURATION_IN_MS <= now

\* a bundle of one update or one delete
UpdatesAndDeletes(ids) ==
    {b \in BundlesOn(ids) : Len(b) = 1 /\ b[1].operation \in {"update", "delete"}}

\* the runner calls what it likes and may lose its bundle; the writer starts its
\* calls after the lock duration, on the ids of that bundle, and the store does not
\* fail under it
MayStart(c) == (c = Writer) => (cl[Runner].pc = "timedOut" /\ LockExpired(Runner))

ReclaimIds(c) == IF c = Writer THEN Touched(Runner) ELSE SharedIds

ReclaimBundles(c) ==
    IF c = Writer THEN UpdatesAndDeletes(Touched(Runner)) ELSE BundlesOn(Ids)

Faults(c) == IF c = Writer THEN {FALSE} ELSE BOOLEAN

ReclaimStep(c) ==
    \/ \E id \in ReclaimIds(c) : MayStart(c) /\ DeleteRead(c, id)
    \/ DeleteWrite(c)
    \/ \E id \in ReclaimIds(c) : MayStart(c) /\ UpdateRead(c, id)
    \/ UpdateCreate(c)
    \/ \E b \in ReclaimBundles(c) : MayStart(c) /\ StartBundle(c, b)
    \/ Lookup(c)
    \/ \E f \in Faults(c) : Stage(c, f)
    \/ \E f \in Faults(c) : Commit(c, f)
    \/ \E f \in Faults(c) : Rollback(c, f)

NextReclaim ==
    \/ Tick
    \/ TimeOut(Runner)
    \/ \E id \in SharedIds : CreateResource(Runner, id)
    \/ \E c \in {Runner, Writer} : ReclaimStep(c)

\* a writer that has a step to take takes it: it carries on with the call it has
\* started, and calls again after a failure
SpecReclaim == Init /\ [][NextReclaim]_vars /\ WF_vars(ReclaimStep(Writer))

\* call o is an update or a delete of an id of the timed-out bundle, started by the
\* writer after the lock duration
LaterCall(o) ==
    /\ cl[Runner].pc = "timedOut"
    /\ o > cl[Runner].op
    /\ journal[o].api \in {"update", "delete", "bundle"}
    /\ journal[o].ids \subseteq Touched(Runner)

\* C30: after a bundle has stopped for good once its staging was complete or
\* part-way through phase 2, every update or delete of one of its ids that another
\* writer starts after the lock duration eventually returns with success.
C30_ReclaimAfterTimeout ==
    \A o \in Ops : LaterCall(o) ~> (journal[o].result = "ok")

----------------------------------------------------------------------------
(* The rollback of a bundle, run again (specification 4.4) *)

\* the rollback of the staged entries from sub-batch k on, every sub-batch applied
\* when the store accepts it
RECURSIVE RollbackRun(_, _, _, _)
RollbackRun(tbl, staged, k, ts) ==
    IF k > SubBatches(staged)
    THEN tbl
    ELSE LET batch == SubBatch(staged, k)
             ds == Flatten([i \in 1..Len(batch) |-> RollbackRequest(batch[i], ts)])
         IN RollbackRun(IF TransactionAccepted(tbl, ds) THEN ApplyAll(tbl, ds) ELSE tbl,
                        staged, k + 1, ts)

\* the rollback of the failed call o runs once more after the call has returned,
\* before any other call
RollbackAgain(o) ==
    /\ Quiescent
    /\ o = nextOp - 1
    /\ journal[o].result \in {"error", "errorNotUndone"}
    /\ journal[o].staged # <<>>
    /\ journal[o].rerun = "none"
    /\ table' = RollbackRun(table, journal[o].staged, 1, now)
    /\ journal' = [journal EXCEPT ![o].rerun = "again"]
    /\ UNCHANGED <<now, cl, nextOp, chain, exposed, failures, updateCreateSupported,
                   blobs, jobs, ex, nextJob, rd, enableMultiTenancy,
                   attributesToDeloadForResourceType>>
    /\ Streamed

\* the rollback of client c is broken off after some of its sub-batches and run
\* again from the first one
RollbackRestart(c) ==
    /\ cl[c].pc = "rollback"
    /\ table' = RollbackRun(table, cl[c].staged, 1, now)
    /\ cl' = [cl EXCEPT ![c] = Idle]
    /\ journal' = [journal EXCEPT ![cl[c].op].result = "error",
                                  ![cl[c].op].staged = cl[c].staged,
                                  ![cl[c].op].rerun = "restart"]
    /\ chain' = ChainAfter(journal[cl[c].op].api, cl[c].requests, "error")
    /\ UNCHANGED <<now, nextOp, exposed, failures, updateCreateSupported,
                   blobs, jobs, ex, nextJob, rd, enableMultiTenancy,
                   attributesToDeloadForResourceType>>
    /\ Streamed

\* one client and the clock
NextRerun ==
    \/ Tick
    \/ \E c \in SeqClients : ClientStep(c, SharedIds, BundlesOn(Ids))
    \/ \E o \in Ops : RollbackAgain(o)
    \/ \E c \in SeqClients : RollbackRestart(c)

SpecRerun == Init /\ [][NextRerun]_vars

\* the keys of the staged entries of an operation
KeysOf(staged, operations) ==
    {<<staged[k].id, staged[k].vid>> : k \in {j \in 1..Len(staged) :
                                                staged[j].operation \in operations}}

\* C31: a second run of the rollback of a failed bundle, after the first run ended
\* or was broken off, leaves the table as one complete run leaves it (what the
\* bundle inserted is gone, what it marked for deletion is AVAILABLE, nothing else
\* has changed, and nothing at all after a complete first run), and the bundle
\* stays failed.
C31_RollbackIdempotent ==
    [][\A o \in Ops :
          journal'[o].rerun # journal[o].rerun =>
             /\ journal'[o].result \in {"error", "errorNotUndone"}
             /\ (journal[o].result = "error") => (table' = table)
             /\ \A key \in KeysOf(journal'[o].staged, {"create", "update"}) :
                   table'[key] = NoItem
             /\ \A key \in KeysOf(journal'[o].staged, {"delete"}) :
                   table'[key].documentStatus = AVAILABLE
             /\ \A key \in (AllIds \X Vids)
                              \ KeysOf(journal'[o].staged, {"create", "update", "delete"}) :
                   table'[key] = table[key]]_vars

\* the rollback has been run again after a complete run, and after a run broken off
C31_Witness ==
    \E o \in Ops :
        /\ journal[o].rerun = "again"
        /\ journal[o].result = "error"
        /\ Len(journal[o].staged) = MaxBundleLen
        /\ \E id \in journal[o].ids : HeadVersion(id).found

----------------------------------------------------------------------------
(* One guarded status transition on one stored item (DynamoDbParamBuilder) *)

TransitionKey == <<"a", 1>>

\* the items a status transition can meet, with a lockEndTs in the past or not
TransitionItems ==
    {[prepItemForDdbInsert(1, 0, rt, st, 0) EXCEPT !.lockEndTs = ts] :
        rt \in ResourceTypes, st \in DocumentStatuses,
        ts \in {0, LOCK_DURATION_IN_MS}} \cup {NoItem}

\* the outcome of one write of the table
WriteOutcome(d, result) ==
    [api |-> "transactWriteItems", resourceType |-> d.resourceType, id |-> d.id,
     vid |-> d.vid, result |-> result, resource |-> d]

\* the transition built by buildUpdateDocumentStatusParam, submitted at the current time
UpdateDocumentStatus(oldStatus, newStatus, resourceType) ==
    LET d == buildUpdateDocumentStatusParam(oldStatus, newStatus, TransitionKey[1],
                                            TransitionKey[2], resourceType, now)
    IN /\ IF ConditionHolds(table, d)
          THEN /\ table' = ApplyWrite(table, d)
               /\ rd' = WriteOutcome(d, "ok")
          ELSE /\ table' = table
               /\ rd' = WriteOutcome(d, "ConditionalCheckFailed")
       /\ UNCHANGED <<now, cl, nextOp, journal, chain, exposed, failures,
                      updateCreateSupported, blobs, jobs, ex, nextJob,
                      enableMultiTenancy, attributesToDeloadForResourceType>>
       /\ Streamed

InitTransition ==
    /\ \E item \in TransitionItems :
          table = [k \in AllIds \X Vids |-> IF k = TransitionKey THEN item ELSE NoItem]
    /\ now = 0
    /\ cl = [c \in Clients |-> Idle]
    /\ nextOp = 1
    /\ journal = [o \in Ops |-> NoCall]
    /\ chain = [i \in Ids |-> NoChain]
    /\ exposed = {}
    /\ failures = 0
    /\ updateCreateSupported = FALSE
    /\ blobs = [k \in Ops |-> NoBlob]
    /\ jobs = [j \in JobIds |-> NoJob]
    /\ ex = [u \in Sessions |-> NoExport]
    /\ nextJob = 1
    /\ rd = NoRead
    /\ enableMultiTenancy = FALSE
    /\ attributesToDeloadForResourceType = {RegisteredType}
    /\ NoStream
    /\ codec = NoCodec

NextTransition ==
    \/ Tick
    \/ \E oldStatus \in DocumentStatuses \cup {NULL}, newStatus \in DocumentStatuses,
          resourceType \in ResourceTypes :
          UpdateDocumentStatus(oldStatus, newStatus, resourceType)

SpecTransition == InitTransition /\ [][NextTransition]_vars

\* C32: a transition with an oldStatus is applied exactly when the stored
\* resourceType is the requested one and the stored status is oldStatus or the stored
\* lockEndTs is earlier than the current time with the status LOCKED, PENDING or
\* PENDING_DELETE; otherwise the item keeps documentStatus and lockEndTs and the
\* caller gets the conditional-check failure.
C32_GuardedTransition ==
    [][(now' = now /\ rd'.api = "transactWriteItems" /\ rd'.resource.oldStatus # NULL) =>
          LET d == rd'.resource
              stored == table[TransitionKey]
              guard == /\ stored.resourceType = d.resourceType
                       /\ \/ stored.documentStatus = d.oldStatus
                          \/ /\ stored.lockEndTs < now
                             /\ stored.documentStatus \in {LOCKED, PENDING, PENDING_DELETE}
          IN IF guard
             THEN /\ rd'.result = "ok"
                  /\ table'[TransitionKey].documentStatus = d.newStatus
             ELSE /\ rd'.result = "ConditionalCheckFailed"
                  /\ table'[TransitionKey].documentStatus = stored.documentStatus
                  /\ table'[TransitionKey].lockEndTs = stored.lockEndTs]_vars

\* a transition with an oldStatus was applied after the clock had advanced
C32_Witness ==
    /\ rd.api = "transactWriteItems"
    /\ rd.result = "ok"
    /\ rd.resource.oldStatus = AVAILABLE
    /\ rd.resource.newStatus = DELETED
    /\ table[TransitionKey].documentStatus = DELETED
    /\ table[TransitionKey].lockEndTs = now
    /\ now > 0

(***************************************************************************)
(* The version lifecycle (specification 3.2)                               *)
(***************************************************************************)
Lifecycle ==
    {<<PENDING, AVAILABLE>>, <<AVAILABLE, DELETED>>, <<AVAILABLE, LOCKED>>,
     <<LOCKED, AVAILABLE>>, <<LOCKED, PENDING_DELETE>>, <<PENDING_DELETE, DELETED>>,
     <<PENDING_DELETE, AVAILABLE>>}

\* C33: every change of the documentStatus of a stored item, by whatever operation
\* and also when an expired lock is reclaimed, is one of the transitions of the
\* version lifecycle; a PENDING item never becomes DELETED in one step and a
\* DELETED item never changes status again
C33_LifecycleOnly ==
    [][\A k \in DOMAIN table :
          (/\ table[k] # NoItem
           /\ table'[k] # NoItem
           /\ table'[k].documentStatus # table[k].documentStatus)
          => <<table[k].documentStatus, table'[k].documentStatus>> \in Lifecycle]_vars

(***************************************************************************)
(* How long a transitional status is protected (DynamoDbParamBuilder,      *)
(* DynamoDbUtil.prepItemForDdbInsert)                                      *)
(***************************************************************************)
\* Date.now() counts milliseconds: the instants at the start of a lock duration
\* and up to MaxMs milliseconds after it
MaxMs == 1
Instants == {k * LOCK_DURATION_IN_MS + ms : k \in 0..MaxTime, ms \in 0..MaxMs}

Elapse ==
    /\ \E t \in Instants : t > now /\ now' = t
    /\ UNCHANGED <<table, cl, nextOp, journal, chain, exposed, failures, updateCreateSupported,
                 blobs, jobs, ex, nextJob, rd, enableMultiTenancy,
      attributesToDeloadForResourceType, streamVars, codec>>

\* the staging write of one bundle entry (generateStagingRequests), submitted at the
\* current time to the item of TransitionKey
SubmitStaging(operation) ==
    LET e == [operation |-> operation, id |-> TransitionKey[1], vid |-> TransitionKey[2]]
        d == StagingRequest(e, 2, 0, now)
    IN /\ IF ConditionHolds(table, d)
          THEN /\ table' = ApplyWrite(table, d)
               /\ rd' = WriteOutcome(d, "ok")
          ELSE /\ table' = table
               /\ rd' = WriteOutcome(d, "ConditionalCheckFailed")
       /\ UNCHANGED <<now, cl, nextOp, journal, chain, exposed, failures,
                      updateCreateSupported, blobs, jobs, ex, nextJob,
                      enableMultiTenancy, attributesToDeloadForResourceType>>
       /\ Streamed

NextLock ==
    \/ Elapse
    \/ \E operation \in {"create", "update", "delete"} : SubmitStaging(operation)
    \/ \E oldStatus \in DocumentStatuses \cup {NULL}, newStatus \in DocumentStatuses,
          resourceType \in ResourceTypes :
          UpdateDocumentStatus(oldStatus, newStatus, resourceType)

SpecLock == InitTransition /\ [][NextLock]_vars

\* the last write of the table was applied and took the item into a transitional
\* status; the time of that write
EnteredTransitional ==
    /\ rd.api = "transactWriteItems"
    /\ rd.result = "ok"
    /\ table[TransitionKey] # NoItem
    /\ table[TransitionKey].documentStatus \in {PENDING, LOCKED, PENDING_DELETE}

EnteredAt ==
    IF rd.resource.type = "Put" THEN rd.resource.item.lockEndTs ELSE rd.resource.currentTs

\* C34: once a write has taken an item into PENDING, LOCKED or PENDING_DELETE, no
\* transition whose oldStatus differs from the stored status is applied to the
\* item before LOCK_DURATION_IN_MS have passed since that write
C34_LockDuration ==
    [][(/\ EnteredTransitional
        /\ now' = now
        /\ rd'.result = "ok"
        /\ rd'.resource.type = "Update"
        /\ rd'.resource.oldStatus # NULL
        /\ rd'.resource.oldStatus # table[TransitionKey].documentStatus)
       => now >= EnteredAt + LOCK_DURATION_IN_MS]_vars

(***************************************************************************)
(* What a bundle that succeeds leaves (specification 4.4)                  *)
(***************************************************************************)
\* the sub-batch that client c stages next
StagingBatch(c) == SubBatch(StagingEntries(cl[c].requests, cl[c].idToVersionId), cl[c].idx)

DeletesOf(batch) == {i \in 1..Len(batch) : batch[i].operation = "delete"}

\* C35: when a bundle returns with success, every version it created or updated is
\* AVAILABLE and the targeted version of every delete is DELETED; and a sub-batch
\* whose deletes all target an AVAILABLE version is accepted at staging, the
\* targets going to PENDING_DELETE
C35_BundleSucceeds ==
    [][\A c \in Clients :
          /\ (/\ cl[c].pc = "commit"
              /\ journal[cl[c].op].api = "bundle"
              /\ journal'[cl[c].op].result = "ok")
             => \A i \in 1..Len(cl[c].staged) :
                   LET e == cl[c].staged[i]
                   IN /\ table'[<<e.id, e.vid>>] # NoItem
                      /\ table'[<<e.id, e.vid>>].documentStatus =
                            IF e.operation = "delete" THEN DELETED ELSE AVAILABLE
          /\ (/\ cl[c].pc = "stage"
              /\ journal[cl[c].op].api = "bundle"
              /\ cl'[c] # cl[c]
              /\ failures' = failures
              /\ \A i \in DeletesOf(StagingBatch(c)) :
                    /\ table[<<StagingBatch(c)[i].id, StagingBatch(c)[i].vid>>] # NoItem
                    /\ table[<<StagingBatch(c)[i].id, StagingBatch(c)[i].vid>>].documentStatus
                          = AVAILABLE)
             => \A i \in DeletesOf(StagingBatch(c)) :
                   table'[<<StagingBatch(c)[i].id, StagingBatch(c)[i].vid>>].documentStatus
                      = PENDING_DELETE]_vars

(***************************************************************************)
(* DynamoDbBundleServiceHelper.generateStagingRequests, with the id of the *)
(* request and the id of its resource told apart                           *)
(***************************************************************************)
\* uuidv4(): the k-th id generated
Uuids == <<"uuid-1", "uuid-2", "uuid-3", "uuid-4">>

\* the requests of a bundle: id and resource.id are an id or undefined (NULL);
\* delete and read have the id that phase 0 looked up
StagingInputs ==
    {[operation |-> o, id |-> i, resource |-> [id |-> ri]] :
        o \in {"create", "update"}, i \in Ids \cup {NULL}, ri \in Ids \cup {NULL}}
    \cup {[operation |-> o, id |-> i, resource |-> [id |-> NULL]] :
            o \in {"delete", "read"}, i \in Ids}

\* idToVersionId[id] || 0
VersionOf(idToVersionId, id) ==
    IF id \in DOMAIN idToVersionId THEN idToVersionId[id] ELSE 0

NoStaging ==
    [deleteRequests |-> <<>>, createRequests |-> <<>>, updateRequests |-> <<>>,
     readRequests |-> <<>>, newLocks |-> <<>>, newStagingResponses |-> <<>>]

\* resource is the resource of the request with the meta of the item, and for a
\* create with the id of the item
addStagingResponseAndItemsLocked(operation, resource) ==
    [stagingResponse |-> [id |-> resource.id, vid |-> resource.meta.versionId,
                          operation |-> operation],
     itemLocked |-> [id |-> resource.id, vid |-> resource.meta.versionId,
                     operation |-> operation,
                     isOriginalUpdateItem |-> IF operation = "update" THEN "false" ELSE NULL]]

\* one request of the forEach; k counts the calls of uuidv4
StageOne(request, idToVersionId, k, ts, acc) ==
    CASE request.operation = "create" ->
            LET id == IF request.id # NULL THEN request.id ELSE Uuids[k + 1]
                vid == 1
                Item == prepItemForDdbInsert(1, 0, ResourceType, PENDING, ts)
                r == addStagingResponseAndItemsLocked(
                        "create", [id |-> id, meta |-> [versionId |-> vid]])
            IN [acc EXCEPT !.createRequests = Append(@, PutParam(Item, id, vid, FALSE)),
                           !.newStagingResponses = Append(@, r.stagingResponse),
                           !.newLocks = Append(@, r.itemLocked)]
      [] request.operation = "update" ->
            LET id == IF request.id # NULL THEN request.id
                      ELSE IF request.resource.id # NULL THEN request.resource.id
                      ELSE Uuids[k + 1]
                vid == VersionOf(idToVersionId, id) + 1
                Item == prepItemForDdbInsert(1, 0, ResourceType, PENDING, ts)
                r == addStagingResponseAndItemsLocked(
                        "update", [id |-> request.resource.id, meta |-> [versionId |-> vid]])
            IN [acc EXCEPT !.updateRequests = Append(@, PutParam(Item, id, vid, FALSE)),
                           !.newStagingResponses = Append(@, r.stagingResponse),
                           !.newLocks = Append(@, r.itemLocked)]
      [] request.operation = "delete" ->
            LET vid == VersionOf(idToVersionId, request.id)
            IN [acc EXCEPT !.deleteRequests =
                              Append(@, buildUpdateDocumentStatusParam(
                                           LOCKED, PENDING_DELETE, request.id, vid,
                                           ResourceType, ts)),
                           !.newStagingResponses =
                              Append(@, [id |-> request.id, vid |-> vid,
                                         operation |-> "delete"])]
      [] OTHER ->
            LET vid == VersionOf(idToVersionId, request.id)
            IN [acc EXCEPT !.readRequests =
                              Append(@, [type |-> "Get", id |-> request.id, vid |-> vid]),
                           !.newStagingResponses =
                              Append(@, [id |-> request.id, vid |-> vid,
                                         operation |-> "read"])]

\* uuidv4 is called for every create, and for an update without any id
UuidCalls(request) ==
    IF \/ request.operation = "create"
       \/ request.operation = "update" /\ request.id = NULL /\ request.resource.id = NULL
    THEN 1 ELSE 0

RECURSIVE generateStagingRequests(_, _, _, _, _)
generateStagingRequests(requests, idToVersionId, k, ts, acc) ==
    IF requests = <<>> THEN acc
    ELSE generateStagingRequests(Tail(requests), idToVersionId,
                                 k + UuidCalls(Head(requests)), ts,
                                 StageOne(Head(requests), idToVersionId, k, ts, acc))

GenerateStagingRequests ==
    /\ codec.pc = "requests"
    /\ codec' = [codec EXCEPT !.pc = "staged",
                    !.staging = generateStagingRequests(codec.requests, codec.idToVersionId,
                                                        0, now, NoStaging)]
    /\ UNCHANGED <<table, now, cl, nextOp, journal, chain, exposed, failures,
                   updateCreateSupported, blobs, jobs, ex, nextJob, rd,
                   enableMultiTenancy, attributesToDeloadForResourceType, streamVars>>

InitStaging ==
    /\ InitTable
    /\ NoStream
    /\ updateCreateSupported = FALSE
    /\ enableMultiTenancy = FALSE
    /\ attributesToDeloadForResourceType = {RegisteredType}
    /\ \E requests \in UNION {[1..n -> StagingInputs] : n \in 1..MaxBundleLen},
          idToVersionId \in [Ids -> 0..MaxVid] :
          /\ \A i \in DOMAIN requests :
                requests[i].operation \in {"delete", "read"}
                => idToVersionId[requests[i].id] > 0
          /\ codec = [pc |-> "requests", requests |-> requests,
                      idToVersionId |-> idToVersionId, staging |-> NoStaging]

SpecStaging == InitStaging /\ [][GenerateStagingRequests]_vars

\* requests up to position i whose operation is one of operations
CountOf(requests, i, operations) ==
    Cardinality({j \in 1..i : requests[j].operation \in operations})

\* the Put staged for request i of the requests
StagedPut(requests, staging, i) ==
    IF requests[i].operation = "create"
    THEN staging.createRequests[CountOf(requests, i, {"create"})]
    ELSE staging.updateRequests[CountOf(requests, i, {"update"})]

\* C36: a create is staged with vid 1 in PENDING under the id of the request or a
\* generated one, an update with vid idToVersionId[id] + 1 in PENDING; each create
\* and update has one lock entry and one response with the id and vid of the
\* staged item; a delete or a read has a response and no lock entry
C36_StagingEntries ==
    codec.pc = "staged" =>
       LET requests == codec.requests
           staging == codec.staging
           inserts == {"create", "update"}
       IN /\ Len(staging.newStagingResponses) = Len(requests)
          /\ Len(staging.newLocks) = CountOf(requests, Len(requests), inserts)
          /\ Len(staging.createRequests) = CountOf(requests, Len(requests), {"create"})
          /\ Len(staging.updateRequests) = CountOf(requests, Len(requests), {"update"})
          /\ \A i \in 1..Len(requests) :
                requests[i].operation \in inserts =>
                   LET put == StagedPut(requests, staging, i)
                       lock == staging.newLocks[CountOf(requests, i, inserts)]
                       response == staging.newStagingResponses[i]
                   IN /\ put.item.documentStatus = PENDING
                      /\ requests[i].id # NULL => put.id = requests[i].id
                      /\ put.id # NULL
                      /\ put.vid = IF requests[i].operation = "create" THEN 1
                                   ELSE VersionOf(codec.idToVersionId, put.id) + 1
                      /\ lock.id = put.id /\ lock.vid = put.vid
                      /\ response.id = put.id /\ response.vid = put.vid

(***************************************************************************)
(* The objects of the versions of a resource (HybridDataService)           *)
(***************************************************************************)
\* no deleteResource of the hybrid data service has been called for id
NeverDeleted(id) ==
    \A o \in Ops : journal[o].api = "hybridDelete" => id \notin journal[o].ids

\* the versions of id stored by a create or update that succeeded, with an object
OffloadedVids(id) ==
    {v \in Vids : /\ table[<<id, v>>] # NoItem
                  /\ table[<<id, v>>].bulkDataLink # 0
                  /\ table[<<id, v>>].documentStatus = AVAILABLE
                  /\ journal[table[<<id, v>>].writer].result = "ok"}

\* C37: a create or update of the hybrid data service writes its object under a key
\* of its own and leaves the objects of the earlier versions alone: the versions of
\* a resource that successful creates and updates stored have one object each, and
\* vReadResource of each returns the attributes this version offloaded
C37_OwnBlobPerVersion ==
    \A id \in Ids :
        NeverDeleted(id) =>
           /\ \A v \in OffloadedVids(id) :
                 LET r == Attached(vReadResource(table, ResourceType, id, v))
                 IN /\ r.result = "ok"
                    /\ r.resource.attrs = table[<<id, v>>].writer
           /\ Cardinality({table[<<id, v>>].bulkDataLink : v \in OffloadedVids(id)})
                 = Cardinality(OffloadedVids(id))

\* a create and an update of one resource succeeded and two objects are stored
C37_Witness ==
    \E id \in Ids :
        /\ NeverDeleted(id)
        /\ {1, 2} \subseteq OffloadedVids(id)
        /\ table[<<id, 1>>].writer # table[<<id, 2>>].writer
        /\ Cardinality({k \in Ops : blobs[k] # NoBlob}) = 2

(***************************************************************************)
(* What the rollback of a bundle removes (generateRollbackRequests)        *)
(***************************************************************************)
\* C38: an item that leaves the table is removed by the rollback of the bundle that
\* inserted it; the rollback does not remove an item that another writer has put
\* or committed at the same (id, vid)
C38_RollbackOwnItems ==
    [][\A k \in DOMAIN table :
          (table[k] # NoItem /\ table'[k] = NoItem)
          => \E c \in Clients : cl[c].pc = "rollback" /\ table[k].writer = cl[c].op]_vars

(***************************************************************************)
(* The final statuses of an export job (specification 4.7)                 *)
(***************************************************************************)
FinalJobStatuses == {"completed", "failed", "canceled"}

\* C39: an export job whose status is completed, failed or canceled keeps that
\* status, also when a cancelExport that read it as in-progress writes after the
\* job has ended
C39_FinalStatusKept ==
    [][\A j \in JobIds :
          jobs[j].jobStatus \in FinalJobStatuses => jobs'[j].jobStatus = jobs[j].jobStatus]_vars

====
